---- MODULE Spec2Model ----
(***************************************************************************)
(* Stella Anki Tools: the multi-credential rotation subsystem              *)
(* (core/api_key_manager.py), the generation gateway built on it           *)
(* (core/gemini_client.py) and the resumable batch-progress tracker        *)
(* (sentence/progress_state.py).                                           *)
(*                                                                         *)
(* Time is counted in hours.  Timestamps that no decision ever reads       *)
(* (last_used, last_failure, last_rotation, started_at, last_updated) and  *)
(* the listener notifications are not part of the state.                   *)
(***************************************************************************)
EXTENDS Integers, Sequences, FiniteSets, TLC

(***************************************************************************)
(* Program constants                                                       *)
(***************************************************************************)
MAX_API_KEYS == 15
FAILURE_THRESHOLD == 5
KEY_COOLDOWN_HOURS == 24
API_KEY_MIN_LENGTH == 35
API_KEY_MAX_LENGTH == 50

(***************************************************************************)
(* Bounds of the model                                                     *)
(***************************************************************************)
\* the clock advances in steps of TickHours, at most MaxTicks times
TickHours == KEY_COOLDOWN_HOURS \div 2
MaxTicks == 2
\* a pool holds at most MaxPool credentials
MaxPool == 3
\* consecutive_failures counts up to MaxConsecutive
MaxConsecutive == 6
\* total_rotations counts up to MaxRotations
MaxRotations == 2
\* generate_text calls in one behaviour, and the largest max_retries
MaxInvocations == 2
MaxEntryInvocations == 4
MaxImages == 3
MaxRetries == 2
\* the id lists handed to the tracker are at most MaxIds long
MaxIds == 3
\* the largest retry count kept for a failed note
MaxFailCount == 2
MaxFaults == 1
MaxSlept == 40
\* total_requests of a statistics record counts up to MaxRequests
MaxRequests == 2

\* "no timestamp" (Python None) for exhausted_at
NoTime == -1
\* "no key" (Python None) returned by get_current_key
NoKey == ""
\* the second component of a result pair: None, or one of the two messages
\* of rotate_to_next_key (otherwise it is the new masked identifier)
NoVal == ""
NoOtherKey == "No other API key available to switch to."
AllExhausted == "No usable API key available. All keys are exhausted."

(***************************************************************************)
(* Strings                                                                 *)
(***************************************************************************)
\* Python: sub in s
Contains(s, sub) ==
    \E i \in 1..(Len(s) - Len(sub) + 1) : SubSeq(s, i, i + Len(sub) - 1) = sub

\* Python: s.startswith(p)
StartsWith(s, p) == Len(s) >= Len(p) /\ SubSeq(s, 1, Len(p)) = p

UpperChars == <<"A","B","C","D","E","F","G","H","I","J","K","L","M",
                "N","O","P","Q","R","S","T","U","V","W","X","Y","Z">>
LowerChars == <<"a","b","c","d","e","f","g","h","i","j","k","l","m",
                "n","o","p","q","r","s","t","u","v","w","x","y","z">>

LowerChar(c) ==
    IF \E i \in 1..26 : UpperChars[i] = c
    THEN LowerChars[CHOOSE i \in 1..26 : UpperChars[i] = c]
    ELSE c

\* Python: s.lower()
RECURSIVE Lower(_)
Lower(s) ==
    IF Len(s) = 0 THEN ""
    ELSE IF Len(s) = 1 THEN LowerChar(s)
    ELSE Lower(SubSeq(s, 1, Len(s) \div 2))
            \o Lower(SubSeq(s, (Len(s) \div 2) + 1, Len(s)))

\* Python: s.strip() (blanks only)
RECURSIVE LStrip(_)
LStrip(s) ==
    IF Len(s) > 0 /\ SubSeq(s, 1, 1) = " " THEN LStrip(SubSeq(s, 2, Len(s))) ELSE s

RECURSIVE RStrip(_)
RStrip(s) ==
    IF Len(s) > 0 /\ SubSeq(s, Len(s), Len(s)) = " "
    THEN RStrip(SubSeq(s, 1, Len(s) - 1)) ELSE s

Strip(s) == RStrip(LStrip(s))

(***************************************************************************)
(* Credentials                                                             *)
(***************************************************************************)
\* the two keys of tests/test_api_key_manager.py and a third one
keyA == "AIzaSyTestKey1234567890abcdefghijklmn"
keyB == "AIzaSyTestKey9876543210abcdefghijklmn"
keyC == "AIzaSyTestKey5555555555abcdefghijkwxyz"

\* what callers hand to add_key
KeyInputs == {keyA, keyB, keyC, " " \o keyC \o " ", "short",
              "NotAValidKey1234567890abcdefghijklmn", ""}

ValidKeys == {keyA, keyB, keyC}

\* key[:4] + "..." + key[-4:], or "invalid" for a key shorter than 10
MaskedId(key) ==
    IF Len(key) < 10 THEN "invalid"
    ELSE SubSeq(key, 1, 4) \o "..." \o SubSeq(key, Len(key) - 3, Len(key))

\* a secret of n characters with the prefix
Filler == "0123456789abcdefghijklmnopqrstuvwxyzABCDEFGHIJKLMNOPQRSTUVWXYZ"
KeyOfLength(n) == "AIza" \o SubSeq(Filler, 1, n - 4)

\* the n-th of the keys that fill a store to its capacity and beyond; the
\* first two are at the two ends of the length range
NumberedKey(n) ==
    IF n = 1 THEN KeyOfLength(API_KEY_MIN_LENGTH)
    ELSE IF n = 2 THEN KeyOfLength(API_KEY_MAX_LENGTH)
    ELSE "AIzaSyCapacityKey00000000000000000"
            \o (IF n < 10 THEN "0" ELSE "") \o ToString(n)

\* how the n-th key is typed: the third one with blanks around it
NumberedInput(n) ==
    IF n = 3 THEN "  " \o NumberedKey(n) \o " " ELSE NumberedKey(n)

CapacityKeys == {NumberedKey(n) : n \in 1..(MAX_API_KEYS + 1)}

\* secrets outside the format: one short of the length range and one beyond
\* it, one with another prefix, blanks only, and nothing
EdgeInputs ==
    {KeyOfLength(API_KEY_MIN_LENGTH - 1), KeyOfLength(API_KEY_MAX_LENGTH + 1),
     "BIza" \o SubSeq(Filler, 1, API_KEY_MIN_LENGTH), "   ", ""}

\* the masked identifiers of the strings add_key can be handed, computed once
StrippedInputs == {Strip(k) : k \in KeyInputs \cup CapacityKeys \cup EdgeInputs}
KeyIdOf == [k \in StrippedInputs |-> MaskedId(k)]

\* _get_key_id: the masked identifier of a key
_get_key_id(key) == KeyIdOf[key]

KeyIds == {KeyIdOf[k] : k \in ValidKeys}

\* APIKeyStats(key_id=...).to_dict(): a fresh statistics record
APIKeyStats ==
    [consecutive_failures |-> 0,
     exhausted_at |-> NoTime, is_active |-> TRUE]

(***************************************************************************)
(* FailureClassifier                                                       *)
(***************************************************************************)
NoneResponseError == "API returned None response"
EmptyResponseError == "API returned empty response"
NoKeyError == "No API key available. Please add an API key in settings."

\* what the generation capability raises
UpstreamErrors == {"429 rate limit exceeded", "500 internal error",
                   "API key not valid"}

\* every text the except block of generate_text sees
ErrorTexts == UpstreamErrors \cup {NoneResponseError, EmptyResponseError, NoKeyError}

ContainsAny(s, subs) == \E x \in subs : Contains(s, x)

\* a classification that tests for a timeout before a network error
classify_error_timeout_first(error) ==
    LET error_str == Lower(error) IN
    IF ContainsAny(error_str, {"429", "rate limit", "quota", "resource exhausted"})
    THEN IF Contains(error_str, "quota") \/ Contains(error_str, "resource exhausted")
         THEN "quota_exceeded"
         ELSE "rate_limit"
    ELSE IF ContainsAny(error_str, {"401", "403", "invalid api key", "api key not valid"})
    THEN "invalid_key"
    ELSE IF Contains(error_str, "timeout")
    THEN "timeout"
    ELSE IF ContainsAny(error_str, {"connection", "network", "refused", "unreachable"})
    THEN "network"
    ELSE IF ContainsAny(error_str, {"safety", "blocked", "content filter", "harm"})
    THEN "content_filter"
    ELSE IF ContainsAny(error_str, {"json", "parse", "decode", "format"})
    THEN "invalid_response"
    ELSE "unknown"

\* classify_error: the error type
classify_error(error) ==
    LET error_str == Lower(error) IN
    IF ContainsAny(error_str, {"429", "rate limit", "quota", "resource exhausted"})
    THEN IF Contains(error_str, "quota") \/ Contains(error_str, "resource exhausted")
         THEN "quota_exceeded"
         ELSE "rate_limit"
    ELSE IF ContainsAny(error_str, {"401", "403", "invalid api key", "api key not valid"})
    THEN "invalid_key"
    ELSE IF ContainsAny(error_str, {"connection", "network", "refused", "unreachable"})
    THEN "network"
    ELSE IF Contains(error_str, "timeout")
    THEN "timeout"
    ELSE IF ContainsAny(error_str, {"safety", "blocked", "content filter", "harm"})
    THEN "content_filter"
    ELSE IF ContainsAny(error_str, {"json", "parse", "decode", "format"})
    THEN "invalid_response"
    ELSE "unknown"

\* pieces of error texts: a phrase of every kind, in several spellings, and
\* words that belong to no kind
ErrorPhrases ==
    {"429", "Rate Limit", "quota", "RESOURCE EXHAUSTED", "403", "API key not valid",
     "Connection", "unreachable", "Timeout", "blocked", "SAFETY", "JSON", "decode",
     "boom", "rate", "404"}

\* str(error) of the exceptions handed to classify_error: nothing, one
\* piece, or two pieces in either order
ClassifyTexts ==
    {""} \cup ErrorPhrases
         \cup {a \o ": " \o b : a \in ErrorPhrases, b \in ErrorPhrases}

\* classify_error: the user-friendly message of the returned pair
classify_message(error) ==
    LET kind == classify_error(error) IN
    IF kind = "quota_exceeded" THEN "API quota exceeded. Rotating to next key..."
    ELSE IF kind = "rate_limit" THEN "Rate limit reached. Waiting before retry..."
    ELSE IF kind = "invalid_key" THEN "Invalid API key. Please check your key."
    ELSE IF kind = "network"
    THEN "Network error. Please check your internet connection."
    ELSE IF kind = "timeout" THEN "Request timed out. Please try again."
    ELSE IF kind = "content_filter" THEN "Content was blocked by safety filters."
    ELSE IF kind = "invalid_response"
    THEN "Invalid response from API. Please retry."
    ELSE "An error occurred: "
            \o SubSeq(error, 1, IF Len(error) < 100 THEN Len(error) ELSE 100)

format_error_message(error, operation) ==
    "Failed to " \o operation \o ": " \o classify_message(error)

\* what generate_content raises besides UpstreamErrors when the connection
\* fails, the request takes too long or the answer cannot be read
TransportErrors == {"Connection refused", "Request timeout", "JSON decode error"}

\* the terminal error of generate_text: raise GeminiError(error_msg)
TerminalTexts ==
    {format_error_message(e, "generate text") : e \in ErrorTexts \cup TransportErrors}

\* the terminal errors of _generate_sentence and _generate_translation
sentence_error(last_error) == "Sentence generation failed: " \o last_error
translation_error(last_error) ==
    "Translation failed after 3 attempts: " \o last_error

\* what the parsing of a response raises in which a field is missing
TranslationParseError == "Missing 'translation' field in response"
SentenceParseError == "Missing required field: translated_sentence"
ParseErrors == {TranslationParseError, SentenceParseError}

\* every text that a caller hands to record_failure: what generate_text
\* catches, what it raises, and what the entry points raise
FailureTexts ==
    ErrorTexts \cup TransportErrors \cup TerminalTexts \cup ParseErrors
        \cup {sentence_error(t) : t \in TerminalTexts \cup ParseErrors}
        \cup {translation_error(t) : t \in TerminalTexts \cup ParseErrors}

\* what _attempt_image_generation raises for a response without image data
NoImageError == "No image data in response"

\* classify_error, tabulated over the texts that occur
ErrorTypeOf ==
    [e \in ErrorTexts \cup ClassifyTexts \cup FailureTexts \cup {NoImageError} |->
        classify_error(e)]

\* a member of the enumeration ErrorType, and a str: a member is equal to
\* itself only, whatever its value
ErrorType(value) == <<"ErrorType", value>>
Str(text) == <<"str", text>>

should_rotate_key(error) ==
    ErrorTypeOf[error] \in {"rate_limit", "quota_exceeded", "invalid_key"}

(***************************************************************************)
(* Failure reasons handed to record_failure                                *)
(***************************************************************************)
Reasons == {"429 rate limit exceeded", "quota exceeded", "500 internal error"}

QuotaPatterns == {"429", "quota", "rate", "resource_exhausted", "limit", "exhausted"}

\* any(x in reason.lower() for x in [...])
MatchesQuota(reason) == \E x \in QuotaPatterns : Contains(Lower(reason), x)

\* error texts that quote a credential or a bearer token: a stored key in
\* the middle of the text, a key that is the whole text, a key in a quota
\* message, a key behind 190 other characters, a token of the characters
\* of an OAuth access token, a token in base64 with '+', '/' and '=', a
\* token behind a lower-case scheme name, and a text without any secret
TokenPlain == "ya29.a0AfH6SMBx-token_1"
TokenBase64 == "abc+def/ghi=="
TokenLower == "secrettoken123"
BearerTokens == {TokenPlain, TokenBase64, TokenLower}

LongText ==
    "0123456789abcdefghijklmnopqrstuvwxyzABCDEFGHIJKLMNOPQRSTUVWXYZ"
       \o "0123456789abcdefghijklmnopqrstuvwxyzABCDEFGHIJKLMNOPQRSTUVWXYZ"
       \o "0123456789abcdefghijklmnopqrstuvwxyzABCDEFGHIJKLMNOPQRSTUVWXYZ"
       \o "+-+-"

SecretReasons ==
    {"API key not valid: " \o keyA \o " rejected",
     keyC,
     "429 quota exceeded for key=" \o keyC,
     LongText \o " " \o keyA \o " tail",
     "Authorization: Bearer " \o TokenPlain \o " failed",
     "401 Unauthorized: Bearer " \o TokenBase64 \o " rejected",
     "authorization: bearer " \o TokenLower,
     ""}

\* the match of every reason of the model, computed once
IsQuotaReason ==
    [r \in Reasons \cup ErrorTexts \cup SecretReasons |-> MatchesQuota(r)]

\* the match of the texts that the entry points and the dialog record
IsQuotaFailure == [r \in FailureTexts |-> MatchesQuota(r)]

\* record_failure: is_quota_error
is_quota_error(reason) ==
    IF reason \in DOMAIN IsQuotaReason THEN IsQuotaReason[reason]
    ELSE IsQuotaFailure[reason]

VARIABLES
    keys,               \* state.keys: the ordered credential list
    current_key_index,  \* state.current_key_index (0-based)
    stats,              \* state.stats: masked id -> statistics record
    total_rotations,    \* state.total_rotations
    now,                \* datetime.now(), in hours
    ret                 \* what the last call returned, when the last step was
                        \* a call that returns a credential or a rotation

kmvars == <<keys, current_key_index, stats, total_rotations, now, ret>>

VARIABLES
    run,    \* position in a run of non-quota record_failure calls (0: none)
    step    \* position in the end-to-end scenario (-1: not in it)

runvars == <<run, step>>

\* GeminiClient and the generate_text call it is in
VARIABLES
    _api_key,        \* GeminiClient._api_key, NoKey for None
    configured_key,  \* the key genai.configure was last given
    pc,              \* "idle", "attempt" (about to try) or "call" (in flight)
    attempt,         \* the loop variable of generate_text
    max_retries,     \* the argument of generate_text
    response,        \* what the last generation call yielded
    result,          \* how the last generate_text ended
    calls,           \* generation calls issued by this generate_text
    failed_calls,    \* those of them that ended in the except block
    successes,       \* record_success calls made by this generate_text
    invocations      \* generate_text calls started so far

genvars == <<_api_key, configured_key, pc, attempt, max_retries, response,
             result, calls, failed_calls, successes, invocations>>

\* ProgressStateManager and its two files
VARIABLES
    _state,          \* ProgressStateManager._state
    primary,         \* the document at _state_path
    backup,          \* the document at _backup_path
    last_call,       \* the last tracker call on an existing run
    tmp,             \* the file at _state_path + ".tmp"
    alive,           \* a process holds a ProgressStateManager
    faults_left,     \* how often the file system or the process still fails
    last_write       \* the last _save_state: how it ended, and its document

ptvars == <<_state, primary, backup, last_call, tmp, alive, faults_left,
            last_write>>

\* DeckOperationDialog and the batch it runs (BatchTranslator for a
\* translation)
VARIABLES
    bpc,             \* where the dialog and its batch loop are
    batch_kind,      \* "sentence", "image" or "translation"
    notes_data,      \* the enumerated items (note ids)
    item_index,      \* enumerate's index of the item at hand
    _cancel_event,   \* self._cancel_event.is_set()
    _pause_event,    \* self._pause_event.is_set()
    elapsed,         \* _interruptible_sleep: elapsed, in tenths of a second
    attempted,       \* the items the loop has started, in order
    log,             \* per finished item: its outcome and the tracker call
    last_delay,      \* the last pacing delay that was started
    cancel_slept,    \* tenths of a second slept in waits with the flag set
    resumed          \* what the last resume offer led to

batchvars == <<bpc, batch_kind, notes_data, item_index, _cancel_event,
               _pause_event, elapsed, attempted, log, last_delay, cancel_slept,
               resumed>>

\* the request counters of the statistics records, and the store call seen
\* last
VARIABLES
    usage,           \* state.stats: masked id -> counters and failure reason
    arg              \* the last store call: its argument and its result pair

countvars == <<usage, arg>>

\* the threads that call into the one APIKeyManager
VARIABLES
    tpc,             \* per thread: the statement of record_success it is at
    tlocal,          \* per thread: its local variables
    returned         \* per masked id: the record_success calls that returned

threadvars == <<tpc, tlocal, returned>>

\* the credentials document and the process that holds the APIKeyManager
VARIABLES
    keys_file,       \* the file at _keys_file
    stats_file,      \* the file at _stats_file
    up,              \* the process is running
    saved            \* the store before the last _save_state, its store, its end

filevars == <<keys_file, stats_file, up, saved>>

\* the entry points above the gateway (Translator, SentenceGenerator) and
\* the ImageGenerator, which has a client of its own
VARIABLES
    last_error,      \* generate_text: last_error, "" while there is none
    entry,           \* the entry point that is running, "" for none
    epc,             \* where the entry point is
    eattempt,        \* its attempt
    entry_result,    \* how its last run ended
    issuers,         \* the credentials whose upstream call has failed
    _client          \* ImageGenerator._client: the key it was made with

entryvars ==
    <<last_error, entry, epc, eattempt, entry_result, issuers, _client>>

morevars == <<countvars, threadvars, filevars, entryvars>>

vars == <<kmvars, runvars, genvars, ptvars, batchvars, morevars>>

\* the value of a call: its name, its result pair, the credential
\* get_current_key handed to it, whether its reason was a quota reason, and
\* the key ids whose expired cooldown it cleared
Ret(op, ok, val, key, quota, cleared) ==
    [op |-> op, ok |-> ok, val |-> val, key |-> key, quota |-> quota,
     cleared |-> cleared]

\* the last step was no such call
NoRet == Ret("", FALSE, NoVal, NoKey, FALSE, {})

\* the key ids that had an exhausted timestamp in st and have none in st2
Cleared(st, st2) ==
    {i \in DOMAIN st : st[i].exhausted_at # NoTime /\ st2[i].exhausted_at = NoTime}

(***************************************************************************)
(* CredentialRotator                                                       *)
(***************************************************************************)
\* a cooldown that still holds at the very end of its window
_is_key_usable_late(st, key_id, t) ==
    IF key_id \notin DOMAIN st THEN TRUE
    ELSE IF ~st[key_id].is_active THEN FALSE
    ELSE IF st[key_id].exhausted_at # NoTime
            /\ t <= st[key_id].exhausted_at + KEY_COOLDOWN_HOURS THEN FALSE
    ELSE TRUE

\* _is_key_usable: the returned value
_is_key_usable(st, key_id, t) ==
    IF key_id \notin DOMAIN st THEN TRUE
    ELSE IF ~st[key_id].is_active THEN FALSE
    ELSE IF st[key_id].exhausted_at # NoTime
            /\ t < st[key_id].exhausted_at + KEY_COOLDOWN_HOURS THEN FALSE
    ELSE TRUE

\* _is_key_usable: the statistics after the call (an expired cooldown is
\* cleared and the consecutive-failure count reset)
_is_key_usable_stats(st, key_id, t) ==
    IF /\ key_id \in DOMAIN st
       /\ st[key_id].is_active
       /\ st[key_id].exhausted_at # NoTime
       /\ ~(t < st[key_id].exhausted_at + KEY_COOLDOWN_HOURS)
    THEN [st EXCEPT ![key_id].exhausted_at = NoTime,
                    ![key_id].consecutive_failures = 0]
    ELSE st

\* _ensure_stats_for_key
_ensure_stats_for_key(st, key) ==
    LET key_id == _get_key_id(key) IN
    IF key_id \in DOMAIN st THEN st
    ELSE [i \in DOMAIN st \cup {key_id} |->
            IF i = key_id THEN APIKeyStats ELSE st[i]]

\* a fallback that hands out the key at the current index
fallback_key_at_index(ks, idx) == ks[(idx % Len(ks)) + 1]

\* get_current_key: all keys are exhausted, return the first one anyway
fallback_key(ks, idx) == ks[1]

\* get_current_key: the while loop from the given attempt on
RECURSIVE get_current_key_loop(_, _, _, _, _)
get_current_key_loop(ks, idx, st, t, attempts) ==
    IF attempts >= Len(ks)
    THEN [key |-> fallback_key(ks, idx), idx |-> idx, st |-> st]
    ELSE LET i == IF idx >= Len(ks) THEN 0 ELSE idx
             key_id == _get_key_id(ks[i + 1])
         IN IF _is_key_usable(st, key_id, t)
            THEN [key |-> ks[i + 1], idx |-> i,
                  st |-> _is_key_usable_stats(st, key_id, t)]
            ELSE get_current_key_loop(ks, (i + 1) % Len(ks), st, t, attempts + 1)

\* get_current_key: the returned key and the state it leaves
do_get_current_key(ks, idx, st, t) ==
    IF Len(ks) = 0 THEN [key |-> NoKey, idx |-> idx, st |-> st]
    ELSE get_current_key_loop(ks, idx, st, t, 0)

\* a scan that takes the next key without asking whether it is usable
rotate_loop_nocheck(ks, idx, original_index, st, t, n) ==
    LET i == (idx + 1) % Len(ks) IN
    [ok |-> TRUE, val |-> _get_key_id(ks[i + 1]), idx |-> i, st |-> st]

\* a scan that does not stop when it is back at the index it started from
RECURSIVE rotate_loop_nobreak(_, _, _, _, _, _)
rotate_loop_nobreak(ks, idx, original_index, st, t, n) ==
    IF n = 0
    THEN [ok |-> FALSE, val |-> AllExhausted, idx |-> idx, st |-> st]
    ELSE LET i == (idx + 1) % Len(ks)
             key_id == _get_key_id(ks[i + 1])
         IN IF _is_key_usable(st, key_id, t)
            THEN [ok |-> TRUE, val |-> key_id, idx |-> i,
                  st |-> _is_key_usable_stats(st, key_id, t)]
            ELSE rotate_loop_nobreak(ks, i, original_index, st, t, n - 1)

\* rotate_to_next_key: the for loop with n iterations left
RECURSIVE rotate_loop(_, _, _, _, _, _)
rotate_loop(ks, idx, original_index, st, t, n) ==
    IF n = 0
    THEN [ok |-> FALSE, val |-> AllExhausted, idx |-> idx, st |-> st]
    ELSE LET i == (idx + 1) % Len(ks) IN
         IF i = original_index
         THEN [ok |-> FALSE, val |-> AllExhausted, idx |-> i, st |-> st]
         ELSE LET key_id == _get_key_id(ks[i + 1]) IN
              IF _is_key_usable(st, key_id, t)
              THEN [ok |-> TRUE, val |-> key_id, idx |-> i,
                    st |-> _is_key_usable_stats(st, key_id, t)]
              ELSE rotate_loop(ks, i, original_index, st, t, n - 1)

\* rotate_to_next_key: the result pair and the state it leaves
do_rotate_to_next_key(ks, idx, st, t) ==
    IF Len(ks) <= 1
    THEN [ok |-> FALSE, val |-> NoOtherKey, idx |-> idx, st |-> st]
    ELSE rotate_loop(ks, idx, idx, st, t, Len(ks))

(***************************************************************************)
(* APIKeyManager: the operations                                           *)
(***************************************************************************)
Range(s) == {s[i] : i \in 1..Len(s)}

\* list.pop(index), index 0-based
Pop(s, index) == [j \in 1..(Len(s) - 1) |-> IF j <= index THEN s[j] ELSE s[j + 1]]

Max(a, b) == IF a >= b THEN a ELSE b

\* the counters of a fresh statistics record (APIKeyStats.to_dict()), and
\* its last_failure_reason; NoReason is Python's None
NoReason == ""

NoCounters ==
    [total_requests |-> 0, successful_requests |-> 0, failed_requests |-> 0,
     total_words_processed |-> 0, total_images_generated |-> 0,
     total_sentences_generated |-> 0, last_failure_reason |-> NoReason]

\* _ensure_stats_for_key, for the counters of the record
ensure_counters(u, key) ==
    LET key_id == _get_key_id(key) IN
    IF key_id \in DOMAIN u THEN u
    ELSE [i \in DOMAIN u \cup {key_id} |->
            IF i = key_id THEN NoCounters ELSE u[i]]

\* the argument of a store call: a secret, an index, an operation kind with
\* its count, or a reason
Arg(op, text, n) == [op |-> op, text |-> text, n |-> n]

NoArg == Arg("", "", 0)

\* a capacity check that lets one more credential in
add_key_refusal_above(ks, key) ==
    IF key = "" THEN "API key is empty."
    ELSE IF Len(ks) > MAX_API_KEYS
    THEN "Maximum of " \o ToString(MAX_API_KEYS) \o " API keys can be registered."
    ELSE IF key \in Range(ks) THEN "This API key is already registered."
    ELSE IF ~StartsWith(key, "AIza")
    THEN "Invalid Google AI API key format (must start with 'AIza')."
    ELSE IF Len(key) < API_KEY_MIN_LENGTH \/ Len(key) > API_KEY_MAX_LENGTH
    THEN "Invalid API key length."
    ELSE NoVal

\* add_key: the message of the check that fails first, NoVal when none does
add_key_refusal(ks, key) ==
    IF key = "" THEN "API key is empty."
    ELSE IF Len(ks) >= MAX_API_KEYS
    THEN "Maximum of " \o ToString(MAX_API_KEYS) \o " API keys can be registered."
    ELSE IF key \in Range(ks) THEN "This API key is already registered."
    ELSE IF ~StartsWith(key, "AIza")
    THEN "Invalid Google AI API key format (must start with 'AIza')."
    ELSE IF Len(key) < API_KEY_MIN_LENGTH \/ Len(key) > API_KEY_MAX_LENGTH
    THEN "Invalid API key length. Expected " \o ToString(API_KEY_MIN_LENGTH)
            \o "-" \o ToString(API_KEY_MAX_LENGTH) \o " characters."
    ELSE NoVal

add_key(input) ==
    LET key == Strip(input)
        refusal == add_key_refusal(keys, key)
        ok == refusal = NoVal
    IN /\ keys' = IF ok THEN Append(keys, key) ELSE keys
       /\ stats' = IF ok THEN _ensure_stats_for_key(stats, key) ELSE stats
       /\ usage' = IF ok THEN ensure_counters(usage, key) ELSE usage
       /\ ret' = Ret("add_key", ok,
                     IF ok THEN "API key added. (Total: "
                                   \o ToString(Len(keys) + 1) \o ")"
                     ELSE refusal,
                     NoKey, FALSE, {})
       /\ arg' = Arg("add_key", input, 0)
       /\ UNCHANGED <<current_key_index, total_rotations, now>>

\* an index that is left where it was
clamped_not(idx, n) == idx

\* remove_key: the current index after the pop
clamped(idx, n) == IF idx >= n THEN Max(0, n - 1) ELSE idx

remove_key(index) ==
    LET ok == ~(index < 0 \/ index >= Len(keys)) IN
    /\ keys' = IF ok THEN Pop(keys, index) ELSE keys
    /\ current_key_index' =
         IF ok THEN clamped(current_key_index, Len(keys) - 1)
         ELSE current_key_index
    /\ ret' = Ret("remove_key", ok,
                  IF ok THEN "API key removed. ("
                                \o _get_key_id(keys[index + 1]) \o ")"
                  ELSE "Invalid index.",
                  NoKey, FALSE, {})
    /\ arg' = Arg("remove_key", "", index)
    /\ UNCHANGED <<stats, usage, total_rotations, now>>

clear_all_keys ==
    /\ keys' = <<>>
    /\ current_key_index' = 0
    /\ ret' = NoRet
    /\ arg' = Arg("clear_all_keys", "", 0)
    /\ UNCHANGED <<stats, usage, total_rotations, now>>

get_current_key ==
    LET r == do_get_current_key(keys, current_key_index, stats, now) IN
    /\ current_key_index' = r.idx
    /\ stats' = r.st
    /\ ret' = Ret("get_current_key", r.key # NoKey, NoVal, r.key, FALSE,
                  Cleared(stats, r.st))
    /\ UNCHANGED <<keys, total_rotations, now>>

rotate_to_next_key ==
    LET r == do_rotate_to_next_key(keys, current_key_index, stats, now) IN
    /\ total_rotations < MaxRotations
    /\ current_key_index' = r.idx
    /\ stats' = r.st
    /\ total_rotations' = IF r.ok THEN total_rotations + 1 ELSE total_rotations
    /\ ret' = Ret("rotate_to_next_key", r.ok, r.val, NoKey, FALSE,
                  Cleared(stats, r.st))
    /\ UNCHANGED <<keys, now>>

\* force_set_current_key: the index it is handed is one of the list
selectable(ks, index) == 0 <= index /\ index < Len(ks)

force_set_current_key(index) ==
    LET ok == selectable(keys, index) IN
    /\ current_key_index' = IF ok THEN index ELSE current_key_index
    /\ ret' = NoRet
    /\ UNCHANGED <<keys, stats, total_rotations, now>>

\* force_set_current_key, with the value it returns
force_set_current_key_returning(index) ==
    LET ok == selectable(keys, index) IN
    /\ current_key_index' = IF ok THEN index ELSE current_key_index
    /\ ret' = Ret("force_set_current_key", ok, NoVal, NoKey, FALSE, {})
    /\ UNCHANGED <<keys, stats, total_rotations, now>>

\* record_success: the state it leaves, [idx, st, key]
do_record_success(ks, idx, st, t) ==
    LET g == do_get_current_key(ks, idx, st, t) IN
    IF g.key = NoKey THEN [idx |-> g.idx, st |-> g.st, key |-> NoKey]
    ELSE LET key_id == _get_key_id(g.key)
             s1 == _ensure_stats_for_key(g.st, g.key)
         IN [idx |-> g.idx, key |-> g.key,
             st |-> [s1 EXCEPT ![key_id].consecutive_failures = 0]]

\* whether one more failure may be counted against the credential that
\* get_current_key hands out (the cap of consecutive_failures)
CanCharge ==
    LET g == do_get_current_key(keys, current_key_index, stats, now) IN
    IF g.key = NoKey THEN TRUE
    ELSE IF _get_key_id(g.key) \notin DOMAIN g.st THEN TRUE
    ELSE g.st[_get_key_id(g.key)].consecutive_failures < MaxConsecutive

record_success ==
    LET r == do_record_success(keys, current_key_index, stats, now) IN
    /\ current_key_index' = r.idx
    /\ stats' = r.st
    /\ ret' = Ret("record_success", r.key # NoKey, NoVal, r.key, FALSE,
                  Cleared(stats, r.st))
    /\ UNCHANGED <<keys, total_rotations, now>>

\* a cooldown that starts only once the failure threshold is reached
mark_exhausted_at_threshold(st, key_id, quota, t) ==
    IF quota /\ st[key_id].consecutive_failures >= FAILURE_THRESHOLD
    THEN [st EXCEPT ![key_id].exhausted_at = t, ![key_id].is_active = TRUE]
    ELSE st

\* record_failure: a quota error marks the key as exhausted immediately
mark_exhausted(st, key_id, quota, t) ==
    IF quota
    THEN [st EXCEPT ![key_id].exhausted_at = t, ![key_id].is_active = TRUE]
    ELSE st

\* a threshold that has to be exceeded
should_rotate_above(quota, consecutive) ==
    quota \/ consecutive > FAILURE_THRESHOLD

\* record_failure: should_rotate
should_rotate(quota, consecutive) ==
    quota \/ consecutive >= FAILURE_THRESHOLD

\* record_failure: the result pair and the state it leaves
do_record_failure(ks, idx, st, rot, t, reason) ==
    LET g == do_get_current_key(ks, idx, st, t) IN
    IF g.key = NoKey
    THEN [ok |-> FALSE, val |-> NoVal, key |-> NoKey, idx |-> g.idx, st |-> g.st,
          rot |-> rot]
    ELSE LET key_id == _get_key_id(g.key)
             s1 == _ensure_stats_for_key(g.st, g.key)
             s2 == [s1 EXCEPT ![key_id].consecutive_failures = @ + 1]
             quota == is_quota_error(reason)
             consecutive == s2[key_id].consecutive_failures
             s3 == mark_exhausted(s2, key_id, quota, t)
         IN IF should_rotate(quota, consecutive) /\ Len(ks) > 1
            THEN LET r == do_rotate_to_next_key(ks, g.idx, s3, t) IN
                 [ok |-> r.ok, val |-> r.val, key |-> g.key, idx |-> r.idx,
                  st |-> r.st, rot |-> IF r.ok THEN rot + 1 ELSE rot]
            ELSE [ok |-> FALSE, val |-> NoVal, key |-> g.key, idx |-> g.idx,
                  st |-> s3, rot |-> rot]

record_failure(reason) ==
    LET r == do_record_failure(keys, current_key_index, stats, total_rotations,
                               now, reason) IN
    /\ CanCharge
    /\ total_rotations < MaxRotations
    /\ current_key_index' = r.idx
    /\ stats' = r.st
    /\ total_rotations' = r.rot
    /\ ret' = Ret("record_failure", r.ok, r.val, r.key, is_quota_error(reason),
                  Cleared(stats, r.st))
    /\ UNCHANGED <<keys, now>>

reset_key_cooldown(index) ==
    LET inrange == 0 <= index /\ index < Len(keys)
        key_id == IF inrange THEN _get_key_id(keys[index + 1]) ELSE "invalid"
        ok == inrange /\ key_id \in DOMAIN stats
    IN /\ stats' = IF ok
                   THEN [stats EXCEPT ![key_id].exhausted_at = NoTime,
                                      ![key_id].consecutive_failures = 0]
                   ELSE stats
       /\ ret' = NoRet
       /\ UNCHANGED <<keys, current_key_index, total_rotations, now>>

(***************************************************************************)
(* APIKeyManager: the request counters and the stored failure reason       *)
(***************************************************************************)
\* [A-Za-z0-9_-], the characters of a key, and [A-Za-z0-9_.-], those the
\* second pattern takes for a token
KeyChars == "ABCDEFGHIJKLMNOPQRSTUVWXYZabcdefghijklmnopqrstuvwxyz0123456789_-"
TokenChars == KeyChars \o "."

\* {30,} in the key pattern, and the slice [:200] of the result
KeyRunLeast == 30
ReasonLimit == 200

\* the length of the longest run of characters of chars in s from position i
RECURSIVE RunLen(_, _, _)
RunLen(s, i, chars) ==
    IF i <= Len(s) /\ Contains(chars, SubSeq(s, i, i))
    THEN 1 + RunLen(s, i + 1, chars)
    ELSE 0

\* whether s reads p from position i
At(s, i, p) == i + Len(p) - 1 <= Len(s) /\ SubSeq(s, i, i + Len(p) - 1) = p

\* the first position from i on where s reads p, Len(s) + 1 when there is
\* none
NextAt(s, i, p) ==
    IF \E j \in i..Len(s) : At(s, j, p)
    THEN CHOOSE j \in i..Len(s) :
            At(s, j, p) /\ \A k \in i..(j - 1) : ~At(s, k, p)
    ELSE Len(s) + 1

\* re.sub(r"AIza[A-Za-z0-9_-]{30,}", "[REDACTED_KEY]", s), from position i
\* on with the next "AIza" at position j
RECURSIVE sub_keys(_, _, _)
sub_keys(s, i, j) ==
    IF j > Len(s) THEN SubSeq(s, i, Len(s))
    ELSE IF RunLen(s, j + 4, KeyChars) >= KeyRunLeast
    THEN SubSeq(s, i, j - 1) \o "[REDACTED_KEY]"
            \o sub_keys(s, j + 4 + RunLen(s, j + 4, KeyChars),
                        NextAt(s, j + 4 + RunLen(s, j + 4, KeyChars), "AIza"))
    ELSE SubSeq(s, i, j) \o sub_keys(s, j + 1, NextAt(s, j + 1, "AIza"))

\* re.sub(r"Bearer\s+[A-Za-z0-9_.-]+", "Bearer [REDACTED]", s), from
\* position i on with the next "Bearer" at position j (blanks for \s)
RECURSIVE sub_bearer(_, _, _)
sub_bearer(s, i, j) ==
    IF j > Len(s) THEN SubSeq(s, i, Len(s))
    ELSE IF /\ RunLen(s, j + 6, " ") >= 1
            /\ RunLen(s, j + 6 + RunLen(s, j + 6, " "), TokenChars) >= 1
    THEN SubSeq(s, i, j - 1) \o "Bearer [REDACTED]"
            \o sub_bearer(s, j + 6 + RunLen(s, j + 6, " ")
                               + RunLen(s, j + 6 + RunLen(s, j + 6, " "), TokenChars),
                          NextAt(s, j + 6 + RunLen(s, j + 6, " ")
                               + RunLen(s, j + 6 + RunLen(s, j + 6, " "), TokenChars),
                                 "Bearer"))
    ELSE SubSeq(s, i, j) \o sub_bearer(s, j + 1, NextAt(s, j + 1, "Bearer"))

\* sanitized[:200]
cut(sanitized) ==
    IF Len(sanitized) <= ReasonLimit THEN sanitized
    ELSE SubSeq(sanitized, 1, ReasonLimit)

\* the first substitution, and the second one on its result
redact_keys(reason) == sub_keys(reason, 1, NextAt(reason, 1, "AIza"))
redact_bearer(text) == sub_bearer(text, 1, NextAt(text, 1, "Bearer"))

_sanitize_error_reason(reason) ==
    IF reason = "" THEN "unknown"
    ELSE cut(redact_bearer(redact_keys(reason)))

\* the sanitized form of every reason of the model, computed once
Sanitized ==
    [r \in Reasons \cup ErrorTexts \cup SecretReasons |->
        _sanitize_error_reason(r)]

\* the sanitized form of the texts that the entry points and the dialog
\* record
SanitizedFailure == [r \in FailureTexts |-> _sanitize_error_reason(r)]

\* the reason as record_failure stores it
sanitized_reason(reason) ==
    IF reason \in DOMAIN Sanitized THEN Sanitized[reason]
    ELSE SanitizedFailure[reason]

\* record_success: the counters of the record of key_id
count_success(u, key_id, operation, count) ==
    [u EXCEPT
       ![key_id].total_requests = @ + 1,
       ![key_id].successful_requests = @ + 1,
       ![key_id].total_words_processed =
           IF operation = "translation" THEN @ + count ELSE @,
       ![key_id].total_images_generated =
           IF operation = "image" THEN @ + count ELSE @,
       ![key_id].total_sentences_generated =
           IF operation = "sentence" THEN @ + count ELSE @]

\* record_failure: the counters of the record of key_id and its reason
count_failure(u, key_id, reason) ==
    [u EXCEPT
       ![key_id].total_requests = @ + 1,
       ![key_id].failed_requests = @ + 1,
       ![key_id].last_failure_reason = sanitized_reason(reason)]

\* the operation kinds and counts that the callers of record_success pass
Operations == {"translation", "image", "sentence"}
Counts == {1, 2}

\* the cap of total_requests: one more request may be counted for key
CanCount(u, key) ==
    IF key = NoKey THEN TRUE
    ELSE IF _get_key_id(key) \notin DOMAIN u THEN TRUE
    ELSE u[_get_key_id(key)].total_requests < MaxRequests

\* record_success(operation, count), with the counters of the record
record_success_counted(operation, count) ==
    /\ record_success
    /\ CanCount(usage, ret'.key)
    /\ usage' = IF ret'.key = NoKey THEN usage
                ELSE count_success(ensure_counters(usage, ret'.key),
                                   _get_key_id(ret'.key), operation, count)
    /\ arg' = Arg("record_success", operation, count)

\* record_failure(reason), with the counters of the record and its reason
record_failure_counted(reason) ==
    /\ record_failure(reason)
    /\ CanCount(usage, ret'.key)
    /\ usage' = IF ret'.key = NoKey THEN usage
                ELSE count_failure(ensure_counters(usage, ret'.key),
                                   _get_key_id(ret'.key), reason)
    /\ arg' = Arg("record_failure", reason, 0)

\* a call that touches no counter
uncounted(op, n) == arg' = Arg(op, "", n) /\ UNCHANGED usage

(***************************************************************************)
(* APIKeyManager called from several threads                               *)
(*                                                                         *)
(* The interpreter may switch threads between any two instructions.  In    *)
(*     stats["total_requests"] = stats.get("total_requests", 0) + 1        *)
(* the call of get and the store into the dictionary are two of them, so   *)
(* each such line is a read step and a write step.  No lock is taken:      *)
(* _lock is used in __new__ only.  get_current_key and the end of          *)
(* record_failure (quota mark, _save_stats, rotation) are taken as one     *)
(* step each.                                                              *)
(***************************************************************************)
\* the callers of the one APIKeyManager: the thread of the user interface
\* and a worker of the thread pool
Threads == {"main", "worker"}

\* the local variables of a call: which call it is, key, the operation kind
\* or the reason, count, and the counter value read last
Local(op, key, text, count, read) ==
    [op |-> op, key |-> key, text |-> text, count |-> count, read |-> read]

NoLocal == Local("", NoKey, "", 0, 0)

\* the name of the counter that a call adds 1 to after total_requests
outcome_counter(op) ==
    IF op = "record_success" THEN "successful_requests" ELSE "failed_requests"

\* the name of the counter of an operation kind, "" for a kind without one
kind_counter(operation) ==
    IF operation = "translation" THEN "total_words_processed"
    ELSE IF operation = "image" THEN "total_images_generated"
    ELSE IF operation = "sentence" THEN "total_sentences_generated"
    ELSE ""

\* one more call of op has returned for key_id
one_more(r, key_id, op) ==
    LET r1 == IF key_id \in DOMAIN r THEN r
              ELSE [i \in DOMAIN r \cup {key_id} |->
                      IF i = key_id THEN [calls |-> 0, successes |-> 0]
                      ELSE r[i]]
    IN [r1 EXCEPT ![key_id].calls = @ + 1,
                  ![key_id].successes =
                      IF op = "record_success" THEN @ + 1 ELSE @]

\* the calls that have returned or are under way
CallsSoFar(r, p) ==
    LET ids == DOMAIN r
        Sum[S \in SUBSET ids] ==
            IF S = {} THEN 0
            ELSE LET i == CHOOSE i \in S : TRUE IN r[i].calls + Sum[S \ {i}]
    IN Sum[ids] + Cardinality({t \in Threads : p[t] # "idle"})

\* thread t enters record_success or record_failure: get_current_key,
\* _ensure_stats_for_key, and the read of total_requests
enter_call(t, op, text, count) ==
    LET g == do_get_current_key(keys, current_key_index, stats, now)
        u == ensure_counters(usage, g.key)
    IN /\ tpc[t] = "idle"
       /\ CallsSoFar(returned, tpc) < MaxRequests
       /\ current_key_index' = g.idx
       /\ IF g.key = NoKey
          THEN /\ stats' = g.st
               /\ UNCHANGED <<usage, tpc, tlocal>>
          ELSE /\ stats' = _ensure_stats_for_key(g.st, g.key)
               /\ usage' = u
               /\ tlocal' = [tlocal EXCEPT ![t] =
                     Local(op, g.key, text, count,
                           u[_get_key_id(g.key)].total_requests)]
               /\ tpc' = [tpc EXCEPT ![t] = "total"]
       /\ ret' = NoRet
       /\ arg' = Arg(op, text, count)
       /\ UNCHANGED <<keys, total_rotations, now, returned>>

\* stats["total_requests"] = ... + 1, and the read of the next counter
store_total(t) ==
    LET key_id == _get_key_id(tlocal[t].key)
        u == [usage EXCEPT ![key_id].total_requests = tlocal[t].read + 1]
    IN /\ tpc[t] = "total"
       /\ usage' = u
       /\ tlocal' = [tlocal EXCEPT ![t].read =
                        u[key_id][outcome_counter(tlocal[t].op)]]
       /\ tpc' = [tpc EXCEPT ![t] = "outcome"]
       /\ UNCHANGED <<kmvars, arg, returned>>

\* stats["successful_requests"] = ... + 1 and consecutive_failures = 0, or
\* stats["failed_requests"] = ... + 1; and the read of the next counter
store_outcome(t) ==
    LET key_id == _get_key_id(tlocal[t].key)
        success == tlocal[t].op = "record_success"
        u == [usage EXCEPT ![key_id][outcome_counter(tlocal[t].op)] =
                               tlocal[t].read + 1]
        st == IF success
              THEN [stats EXCEPT ![key_id].consecutive_failures = 0]
              ELSE stats
    IN /\ tpc[t] = "outcome"
       /\ usage' = u
       /\ stats' = st
       /\ tlocal' = [tlocal EXCEPT ![t].read =
                        IF success
                        THEN IF kind_counter(tlocal[t].text) = "" THEN 0
                             ELSE u[key_id][kind_counter(tlocal[t].text)]
                        ELSE st[key_id].consecutive_failures]
       /\ tpc' = [tpc EXCEPT ![t] = IF success THEN "kind" ELSE "consecutive"]
       /\ UNCHANGED <<keys, current_key_index, total_rotations, now, ret, arg,
                      returned>>

\* record_success: the counter of the kind is stored, and the call returns
store_kind(t) ==
    LET key_id == _get_key_id(tlocal[t].key)
        counter == kind_counter(tlocal[t].text)
    IN /\ tpc[t] = "kind"
       /\ usage' = IF counter = "" THEN usage
                   ELSE [usage EXCEPT ![key_id][counter] =
                                         tlocal[t].read + tlocal[t].count]
       /\ returned' = one_more(returned, key_id, tlocal[t].op)
       /\ tpc' = [tpc EXCEPT ![t] = "idle"]
       /\ tlocal' = [tlocal EXCEPT ![t] = NoLocal]
       /\ ret' = Ret("record_success", TRUE, NoVal, tlocal[t].key, FALSE, {})
       /\ UNCHANGED <<keys, current_key_index, stats, total_rotations, now, arg>>

\* record_failure: consecutive_failures is stored, then the reason, the
\* quota mark and the rotation, and the call returns
store_consecutive(t) ==
    LET key == tlocal[t].key
        key_id == _get_key_id(key)
        reason == tlocal[t].text
        quota == is_quota_error(reason)
        consecutive == tlocal[t].read + 1
        s2 == [stats EXCEPT ![key_id].consecutive_failures = consecutive]
        s3 == mark_exhausted(s2, key_id, quota, now)
        rotates == should_rotate(quota, consecutive) /\ Len(keys) > 1
        r == do_rotate_to_next_key(keys, current_key_index, s3, now)
    IN /\ tpc[t] = "consecutive"
       /\ total_rotations < MaxRotations
       /\ usage' = [usage EXCEPT
                      ![key_id].last_failure_reason = sanitized_reason(reason)]
       /\ stats' = IF rotates THEN r.st ELSE s3
       /\ current_key_index' = IF rotates THEN r.idx ELSE current_key_index
       /\ total_rotations' =
             IF rotates /\ r.ok THEN total_rotations + 1 ELSE total_rotations
       /\ returned' = one_more(returned, key_id, tlocal[t].op)
       /\ tpc' = [tpc EXCEPT ![t] = "idle"]
       /\ tlocal' = [tlocal EXCEPT ![t] = NoLocal]
       /\ ret' = Ret("record_failure", rotates /\ r.ok,
                     IF rotates THEN r.val ELSE NoVal, key, quota, {})
       /\ UNCHANGED <<keys, now, arg>>

\* the clock of datetime.now() advances
Tick ==
    /\ now < MaxTicks * TickHours
    /\ now' = now + TickHours
    /\ ret' = NoRet
    /\ UNCHANGED <<keys, current_key_index, stats, total_rotations>>

\* api_stats.json as the constructor finds it: absent, or holding a
\* record that was deactivated by hand
InitStats ==
    {<<>>, [i \in {MaskedId(keyC)} |-> [APIKeyStats EXCEPT !.is_active = FALSE]]}

(***************************************************************************)
(* Runs of calls                                                           *)
(***************************************************************************)
\* usable, in the words of the specification: not deactivated, and not
\* cooling down (no exhausted timestamp, or one that is a cooldown old)
Usable(st, key, t) ==
    IF KeyIdOf[key] \notin DOMAIN st THEN TRUE
    ELSE /\ st[KeyIdOf[key]].is_active
         /\ \/ st[KeyIdOf[key]].exhausted_at = NoTime
            \/ t >= st[KeyIdOf[key]].exhausted_at + KEY_COOLDOWN_HOURS

CoolingDown(st, key, t) ==
    IF KeyIdOf[key] \notin DOMAIN st THEN FALSE
    ELSE /\ st[KeyIdOf[key]].exhausted_at # NoTime
         /\ t < st[KeyIdOf[key]].exhausted_at + KEY_COOLDOWN_HOURS

\* the index d places after idx, cyclically
Cyc(ks, idx, d) == (idx + d) % Len(ks)

\* some credential other than the one at idx is usable
OtherUsable(ks, idx, st, t) ==
    \E d \in 1..(Len(ks) - 1) : Usable(st, ks[Cyc(ks, idx, d) + 1], t)

\* the index of the first usable credential after idx, in cyclic order
FirstOther(ks, idx, st, t) ==
    LET d == CHOOSE d \in 1..(Len(ks) - 1) :
                /\ Usable(st, ks[Cyc(ks, idx, d) + 1], t)
                /\ \A e \in 1..(d - 1) : ~Usable(st, ks[Cyc(ks, idx, e) + 1], t)
    IN Cyc(ks, idx, d)

\* the consecutive-failure count of the credential current() returns
CurrentCount ==
    LET g == do_get_current_key(keys, current_key_index, stats, now) IN
    IF g.key = NoKey THEN 0
    ELSE IF KeyIdOf[g.key] \notin DOMAIN g.st THEN 0
    ELSE g.st[KeyIdOf[g.key]].consecutive_failures

\* a run starts at a non-quota failure of a current credential with count 0
\* in a pool of two or more of which another is usable, goes on with each
\* further non-quota failure, and ends with the call that makes it
\* FAILURE_THRESHOLD long
TrackRun(reason) ==
    LET g == do_get_current_key(keys, current_key_index, stats, now) IN
    run' = IF is_quota_error(reason) THEN 0
           ELSE IF /\ CurrentCount = 0
                   /\ Len(keys) >= 2
                   /\ OtherUsable(keys, g.idx, g.st, now) THEN 1
           ELSE IF run >= 1 /\ run < FAILURE_THRESHOLD THEN run + 1
           ELSE 0

\* the scenario: FAILURE_THRESHOLD non-quota failures, then one quota failure
TrackStep(reason) ==
    step' = IF step >= 0 /\ step < FAILURE_THRESHOLD /\ ~is_quota_error(reason)
            THEN step + 1
            ELSE IF step = FAILURE_THRESHOLD /\ is_quota_error(reason)
            THEN step + 1
            ELSE -1

\* any other call ends the run and leaves the scenario
Untracked == run' = 0 /\ step' = -1

(***************************************************************************)
(* GenerationGateway: GeminiClient.generate_text                           *)
(***************************************************************************)
\* the texts a response carries
ResponseTexts == {"", " ", " ok "}

\* what model.generate_content yields: no response object, a response with
\* a text, or an exception with a message
Responses ==
    {[kind |-> "none", text |-> ""]}
    \cup {[kind |-> "text", text |-> t] : t \in ResponseTexts}
    \cup {[kind |-> "error", text |-> e] : e \in UpstreamErrors}

NoResponse == [kind |-> "", text |-> ""]

\* str.strip, tabulated over the response texts
StripOf == [t \in ResponseTexts |-> Strip(t)]

\* how generate_text ends
NoResult == [kind |-> "", text |-> ""]
Raised == [kind |-> "raise", text |-> ""]
Returned(text) == [kind |-> "return", text |-> text]

\* the retry loop takes the rotation's continue for a new attempt without
\* counting it
next_attempt_free(n, rotated) == IF rotated THEN n ELSE n + 1

\* for attempt in range(1, max_retries + 1): the next value, also after continue
next_attempt(n, rotated) == n + 1

\* the exception a response makes the try block raise ("" for none)
response_error(resp) ==
    IF resp.kind = "none" THEN NoneResponseError
    ELSE IF resp.kind = "error" THEN resp.text
    ELSE IF StripOf[resp.text] = "" THEN EmptyResponseError
    ELSE ""

\* the except block of generate_text after its first record_failure (r1):
\* continue after a rotation, else the second record_failure of a
\* rotation-worthy error
except_rest(rk, r1, ks, t, error_str) ==
    IF rk /\ r1.ok
    THEN [rotated |-> TRUE, last |-> r1]
    ELSE [rotated |-> FALSE,
          last |-> IF rk
                   THEN do_record_failure(ks, r1.idx, r1.st, r1.rot, t, error_str)
                   ELSE r1]

\* the except block of generate_text: what it does to the key manager, and
\* whether it continues after a rotation
do_except(error_str, ks, idx, st, rot, t) ==
    except_rest(should_rotate_key(error_str),
                do_record_failure(ks, idx, st, rot, t, error_str),
                ks, t, error_str)

\* the except block, then the next iteration or the terminal error
Except(error_str, issued) ==
    \E e \in {do_except(error_str, keys, current_key_index, stats,
                        total_rotations, now)} :
    \E n \in {next_attempt(attempt, e.rotated)} :
       /\ current_key_index' = e.last.idx
       /\ stats' = e.last.st
       /\ total_rotations' = e.last.rot
       /\ ret' = Ret("record_failure", e.last.ok, e.last.val, e.last.key,
                     is_quota_error(error_str), Cleared(stats, e.last.st))
       /\ _api_key' = IF e.rotated THEN NoKey ELSE _api_key
       /\ attempt' = n
       /\ failed_calls' = IF issued THEN failed_calls + 1 ELSE failed_calls
       /\ IF n > max_retries
          THEN pc' = "idle" /\ result' = Raised
          ELSE pc' = "attempt" /\ result' = NoResult
       /\ UNCHANGED <<keys, now>>

\* generate_text is called: the loop it enters
generate_text_start(mr) ==
    /\ pc = "idle"
    /\ max_retries' = mr
    /\ attempt' = 1
    /\ calls' = 0
    /\ failed_calls' = 0
    /\ successes' = 0
    /\ response' = NoResponse
    /\ IF mr < 1
       THEN pc' = "idle" /\ result' = Raised
       ELSE pc' = "attempt" /\ result' = NoResult
    /\ UNCHANGED <<_api_key, configured_key>>

\* generate_text is called: what it does to the client
generate_text_begin(mr) ==
    /\ invocations < MaxInvocations
    /\ invocations' = invocations + 1
    /\ generate_text_start(mr)

\* generate_text is called
generate_text(mr) ==
    /\ generate_text_begin(mr)
    /\ UNCHANGED <<kmvars, runvars, ptvars, batchvars, morevars>>

\* one iteration up to model.generate_content: _get_model takes the cached
\* key if there is one, else the key manager's, and configures it
generate_content_try ==
    \E g \in {do_get_current_key(keys, current_key_index, stats, now)} :
    LET cached == _api_key # NoKey
        api_key == IF cached THEN _api_key ELSE g.key
    IN /\ pc = "attempt"
       /\ IF api_key = NoKey
          THEN /\ Except(NoKeyError, FALSE)
               /\ UNCHANGED <<configured_key, max_retries, response, calls,
                              successes, invocations>>
          ELSE /\ _api_key' = api_key
               /\ configured_key' = api_key
               /\ calls' = calls + 1
               /\ response' = NoResponse
               /\ pc' = "call"
               /\ current_key_index' = IF cached THEN current_key_index ELSE g.idx
               /\ stats' = IF cached THEN stats ELSE g.st
               /\ ret' = IF cached THEN ret
                         ELSE Ret("get_current_key", TRUE, NoVal, g.key, FALSE,
                                  Cleared(stats, g.st))
               /\ UNCHANGED <<keys, total_rotations, now>>
               /\ UNCHANGED <<attempt, max_retries, result, failed_calls,
                              successes, invocations>>
       /\ Untracked

generate_content == generate_content_try /\ UNCHANGED <<ptvars, batchvars, morevars>>

\* the call comes back: the rest of the try block, or the except block
generate_content_end(resp) ==
    /\ pc = "call"
    /\ response' = resp
    /\ IF response_error(resp) = ""
       THEN LET r == do_record_success(keys, current_key_index, stats, now) IN
            /\ current_key_index' = r.idx
            /\ stats' = r.st
            /\ ret' = Ret("record_success", r.key # NoKey, NoVal, r.key, FALSE,
                          Cleared(stats, r.st))
            /\ successes' = successes + 1
            /\ result' = Returned(StripOf[resp.text])
            /\ pc' = "idle"
            /\ UNCHANGED <<keys, total_rotations, now>>
            /\ UNCHANGED <<_api_key, attempt, failed_calls>>
       ELSE Except(response_error(resp), TRUE) /\ UNCHANGED successes
    /\ UNCHANGED <<configured_key, max_retries, calls, invocations>>
    /\ Untracked

generate_content_done(resp) ==
    generate_content_end(resp) /\ UNCHANGED <<ptvars, batchvars, morevars>>

\* record_failure and record_success in the statistics of the credential
\* they charge
charge_failure(u, key, reason) ==
    IF key = NoKey THEN u
    ELSE count_failure(ensure_counters(u, key), _get_key_id(key), reason)

charge_success(u, key, operation, count) ==
    IF key = NoKey THEN u
    ELSE count_success(ensure_counters(u, key), _get_key_id(key), operation,
                       count)

\* the except block of generate_text: the counters after its record_failure
\* calls, the one before `if rotated` and the one after it
except_usage(u, error_str, rk, r1, e) ==
    IF rk /\ ~r1.ok
    THEN charge_failure(charge_failure(u, r1.key, error_str), e.last.key,
                        error_str)
    ELSE charge_failure(u, r1.key, error_str)

\* the except block of generate_text counts
count_except(error_str) ==
    \E rk \in {should_rotate_key(error_str)} :
    \E r1 \in {do_record_failure(keys, current_key_index, stats,
                                 total_rotations, now, error_str)} :
    \E e \in {except_rest(rk, r1, keys, now, error_str)} :
       usage' = except_usage(usage, error_str, rk, r1, e)

\* the try block of generate_text counts
count_try ==
    \E s \in {do_record_success(keys, current_key_index, stats, now)} :
       usage' = charge_success(usage, s.key, "translation", 1)

\* the steps of generate_text with the counters it changes, its last_error
\* and the credentials whose upstream call failed
gateway_begin(mr) ==
    /\ generate_text_begin(mr)
    /\ last_error' = ""
    /\ arg' = Arg("generate_text", "", mr)
    /\ UNCHANGED <<kmvars, runvars, usage, issuers>>

gateway_try ==
    LET no_key == _api_key = NoKey
                    /\ do_get_current_key(keys, current_key_index, stats,
                                          now).key = NoKey
    IN /\ generate_content_try
       /\ IF no_key THEN count_except(NoKeyError) ELSE UNCHANGED usage
       /\ last_error' = IF no_key THEN NoKeyError ELSE last_error
       /\ arg' = Arg("generate_content", "", 0)
       /\ UNCHANGED issuers

gateway_end(resp) ==
    LET error_str == response_error(resp) IN
    /\ generate_content_end(resp)
    /\ IF error_str = "" THEN count_try ELSE count_except(error_str)
    /\ last_error' = IF error_str = "" THEN last_error ELSE error_str
    /\ issuers' = IF error_str # ""
                  THEN issuers \cup {configured_key}
                  ELSE issuers
    /\ arg' = Arg("generate_content_done", error_str, 0)

(***************************************************************************)
(* ProgressTracker: ProgressStateManager                                   *)
(***************************************************************************)
\* deck 1 gets runs; deck 2 never does, so that calls on it find no run
DeckIds == {1, 2}
RunDecks == {1}
NoteIds == {1, 2}
Messages == {"timeout", "API returned empty response"}

\* str(int) and int(str) over the ids that occur
Digits == <<"0", "1", "2", "3", "4", "5", "6", "7", "8", "9">>
StrOf == [n \in 0..9 |-> Digits[n + 1]]
IntOf(str) == CHOOSE n \in 0..9 : StrOf[n] = str

\* the id lists callers hand in, duplicates included
RECURSIVE SeqsUpTo(_, _)
SeqsUpTo(S, n) ==
    IF n = 0 THEN {<<>>}
    ELSE LET shorter == SeqsUpTo(S, n - 1) IN
         shorter \cup {Append(q, x) : q \in {r \in shorter : Len(r) = n - 1}, x \in S}

IdLists == SeqsUpTo(NoteIds, MaxIds)

\* list.remove(x) for an x that is in the list: the first occurrence goes
Remove(list, x) ==
    LET i == CHOOSE i \in 1..Len(list) :
                 list[i] = x /\ \A j \in 1..(i - 1) : list[j] # x
    IN SubSeq(list, 1, i - 1) \o SubSeq(list, i + 1, Len(list))

Filter(list, Keep(_)) == SelectSeq(list, Keep)

\* what a path holds: nothing, bytes that are no UTF-8 text, text that is
\* no JSON, JSON that is no object, or a JSON object
NoFile == [kind |-> "absent", data |-> <<>>]
NotUtf8 == [kind |-> "not_utf8", data |-> <<>>]
InvalidJson == [kind |-> "invalid_json", data |-> <<>>]
NotObject == [kind |-> "json_list", data |-> <<>>]

\* json.dump(data, f, indent=2, ensure_ascii=False) of a state, complete
json_dump(data) == [kind |-> "json_object", data |-> data]

\* a document that was cut off while it was written: never valid JSON, and
\* cut inside a multi-byte character not even text
Partials == {InvalidJson, NotUtf8}

\* the failed dict of a run is an ordered dict: a sequence of entries
\* [nid, message, count] with distinct nid, in insertion order
FailedKeys(failed) == {failed[i].nid : i \in 1..Len(failed)}

\* failed.get(key)["count"], 0 when there is no entry
FailedCount(failed, key) ==
    IF key \in FailedKeys(failed)
    THEN (CHOOSE e \in Range(failed) : e.nid = key).count
    ELSE 0

\* how a write ends: both files written; OSError from _atomic_write;
\* OSError from copyfile before or while it writes; the process dies while
\* the temp file is written, after os.replace, or inside copyfile
WriteOutcomes ==
    {"ok", "primary_oserror", "copy_open_oserror", "copy_oserror",
     "crash_in_temp", "crash_after_replace", "crash_in_copy"}

CrashOutcomes == {"crash_in_temp", "crash_after_replace", "crash_in_copy"}

\* the outcomes in which os.replace has put the new document in place
ReplacedOutcomes ==
    {"ok", "copy_open_oserror", "copy_oserror", "crash_after_replace",
     "crash_in_copy"}

\* the outcomes the file system and the process can still produce
Outcomes == IF faults_left > 0 THEN WriteOutcomes ELSE {"ok"}

\* a write that opens the target itself: the cut-off document is the target
_atomic_write_in_place(file, data, outcome, part) ==
    IF outcome \in ReplacedOutcomes
    THEN [file |-> json_dump(data), tmp |-> NoFile]
    ELSE IF outcome = "crash_in_temp"
    THEN [file |-> part, tmp |-> NoFile]
    ELSE [file |-> file, tmp |-> NoFile]

\* _atomic_write: the target and the temp file it leaves (the finally
\* clause removes the temp file unless the process is gone)
_atomic_write(file, data, outcome, part) ==
    IF outcome \in ReplacedOutcomes
    THEN [file |-> json_dump(data), tmp |-> NoFile]
    ELSE IF outcome = "crash_in_temp"
    THEN [file |-> file, tmp |-> part]
    ELSE [file |-> file, tmp |-> NoFile]

\* shutil.copyfile(_state_path, _backup_path) in _save_state: the backup
copyfile(src, dst, outcome, part) ==
    IF outcome = "ok" THEN src
    ELSE IF outcome \in {"copy_oserror", "crash_in_copy"} THEN part
    ELSE dst

\* the operation tag of the dialog's tracker:
\* ProgressStateManager(self._addon_dir, operation="deck")
_operation == "deck"

NoCall == [op |-> "", deck |-> 0, note |-> 0, message |-> "", ids |-> <<>>,
           raised |-> FALSE]

Call(op, deck, note, message, ids) ==
    [op |-> op, deck |-> deck, note |-> note, message |-> message, ids |-> ids,
     raised |-> FALSE]

NoWrite == [outcome |-> "none", doc |-> <<>>]

\* the assignment to self._state, then _save_state: _atomic_write to the
\* primary, then copyfile to the backup; a process that dies takes its
\* memory with it
_save_state(st, call) ==
    \E outcome \in Outcomes, part \in Partials :
        LET w == _atomic_write(primary, st, outcome, part)
            crashed == outcome \in CrashOutcomes
        IN /\ alive
           /\ primary' = w.file
           /\ tmp' = w.tmp
           /\ backup' = copyfile(w.file, backup, outcome, part)
           /\ faults_left' = IF outcome = "ok" THEN faults_left ELSE faults_left - 1
           /\ alive' = ~crashed
           /\ _state' = IF crashed THEN <<>> ELSE st
           /\ last_call' = IF crashed THEN NoCall ELSE call
           /\ last_write' = [outcome |-> outcome, doc |-> st]

\* a call that returns before it changes anything
NotSaved ==
    /\ alive
    /\ last_call' = NoCall
    /\ UNCHANGED <<_state, primary, backup, tmp, alive, faults_left, last_write>>

\* list(dict.fromkeys(ids)) that keeps the last occurrence of an id
RECURSIVE DedupLast(_)
DedupLast(ids) ==
    IF ids = <<>> THEN <<>>
    ELSE LET back == DedupLast(SubSeq(ids, 2, Len(ids)))
             x == ids[1]
         IN IF x \in Range(back) THEN back ELSE <<x>> \o back

\* list(dict.fromkeys(ids)): later duplicates dropped, order kept
RECURSIVE Dedup(_)
Dedup(ids) ==
    IF ids = <<>> THEN <<>>
    ELSE LET front == Dedup(SubSeq(ids, 1, Len(ids) - 1))
             x == ids[Len(ids)]
         IN IF x \in Range(front) THEN front ELSE Append(front, x)

start_run(deck_id, note_ids) ==
    LET unique_ids == Dedup(note_ids)
        key == StrOf[deck_id]
        new == [pending |-> unique_ids, failed |-> <<>>, total |-> Len(unique_ids),
                operation |-> _operation]
    IN _save_state([k \in DOMAIN _state \cup {key} |->
                       IF k = key THEN new ELSE _state[k]],
                   Call("start_run", deck_id, 0, "", note_ids))

update_pending(deck_id, remaining_ids) ==
    LET key == StrOf[deck_id] IN
    IF key \notin DOMAIN _state
    THEN NotSaved
    ELSE _save_state([_state EXCEPT ![key].pending = Dedup(remaining_ids)],
                     NoCall)

\* a mark_success that keeps the failure detail of the note
do_mark_success_keep_failed(the_run, note_id) ==
    [the_run EXCEPT
        !.pending = IF note_id \in Range(@) THEN Remove(@, note_id) ELSE @]

\* mark_success: the run it leaves
do_mark_success(the_run, note_id) ==
    [the_run EXCEPT
        !.pending = IF note_id \in Range(@) THEN Remove(@, note_id) ELSE @,
        !.failed = LET Other(e) == e.nid # StrOf[note_id] IN Filter(@, Other)]

mark_success(deck_id, note_id) ==
    LET key == StrOf[deck_id] IN
    IF key \notin DOMAIN _state
    THEN NotSaved
    ELSE _save_state([_state EXCEPT ![key] = do_mark_success(@, note_id)],
                     Call("mark_success", deck_id, note_id, "", <<>>))

\* a failure that also puts the note back into pending
do_mark_failure_requeue(the_run, note_id, error_message) ==
    LET key == StrOf[note_id]
        info == [nid |-> key, message |-> error_message,
                 count |-> FailedCount(the_run.failed, key) + 1]
    IN [the_run EXCEPT
          !.pending = IF note_id \in Range(@) THEN @ ELSE Append(@, note_id),
          !.failed = IF key \in FailedKeys(@)
                     THEN [i \in 1..Len(@) |-> IF @[i].nid = key THEN info ELSE @[i]]
                     ELSE Append(@, info)]

\* mark_failure: the run it leaves
do_mark_failure(the_run, note_id, error_message) ==
    LET key == StrOf[note_id]
        info == [nid |-> key, message |-> error_message,
                 count |-> FailedCount(the_run.failed, key) + 1]
    IN [the_run EXCEPT
          !.failed = IF key \in FailedKeys(@)
                     THEN [i \in 1..Len(@) |-> IF @[i].nid = key THEN info ELSE @[i]]
                     ELSE Append(@, info)]

mark_failure(deck_id, note_id, error_message) ==
    LET key == StrOf[deck_id] IN
    IF key \notin DOMAIN _state
    THEN NotSaved
    ELSE /\ FailedCount(_state[key].failed, StrOf[note_id]) < MaxFailCount
         /\ _save_state([_state EXCEPT
                            ![key] = do_mark_failure(@, note_id, error_message)],
                        Call("mark_failure", deck_id, note_id, error_message, <<>>))

clear_run(deck_id) ==
    LET key == StrOf[deck_id] IN
    IF key \notin DOMAIN _state
    THEN NotSaved
    ELSE _save_state([k \in DOMAIN _state \ {key} |-> _state[k]],
                     Call("clear_run", deck_id, 0, "", <<>>))

\* reset_failures_to_pending: the pending list after the for loop over the
\* first n entries of failed
RECURSIVE requeue(_, _, _)
requeue(pending, failed, n) ==
    IF n = 0 THEN pending
    ELSE LET before == requeue(pending, failed, n - 1)
             note_id == IntOf(failed[n].nid)
         IN IF note_id \in Range(before) THEN before ELSE Append(before, note_id)

reset_failures_to_pending(deck_id) ==
    LET key == StrOf[deck_id] IN
    IF key \notin DOMAIN _state
    THEN NotSaved
    ELSE IF _state[key].failed = <<>>
    THEN NotSaved
    ELSE _save_state([_state EXCEPT
                         ![key].pending = requeue(@, _state[key].failed,
                                                  Len(_state[key].failed)),
                         ![key].failed = <<>>],
                     NoCall)

\* _read_state_file: the dict it returns (ok), None, or the exception that
\* leaves it: open(path, "r", encoding="utf-8") decodes while json.load
\* reads, and UnicodeDecodeError is neither OSError nor JSONDecodeError
_read_state_file(file) ==
    IF file.kind = "absent" THEN [raised |-> FALSE, ok |-> FALSE, data |-> <<>>]
    ELSE IF file.kind = "not_utf8" THEN [raised |-> TRUE, ok |-> FALSE, data |-> <<>>]
    ELSE IF file.kind = "json_object" THEN [raised |-> FALSE, ok |-> TRUE, data |-> file.data]
    ELSE [raised |-> FALSE, ok |-> FALSE, data |-> <<>>]

\* _load_state: where the state comes from
_load_state(prim, back) ==
    LET p == _read_state_file(prim)
        b == _read_state_file(back)
    IN IF p.raised THEN [raised |-> TRUE, from |-> "", data |-> <<>>]
       ELSE IF p.ok THEN [raised |-> FALSE, from |-> "primary", data |-> p.data]
       ELSE IF b.raised THEN [raised |-> TRUE, from |-> "", data |-> <<>>]
       ELSE IF b.ok THEN [raised |-> FALSE, from |-> "backup", data |-> b.data]
       ELSE [raised |-> FALSE, from |-> "nothing", data |-> <<>>]

\* the outcomes of the _atomic_write in _load_state
RestoreOutcomes ==
    IF faults_left > 0
    THEN {"ok", "primary_oserror", "crash_in_temp", "crash_after_replace"}
    ELSE {"ok"}

\* ProgressStateManager(addon_dir, operation): _load_state, with the
\* primary restored from the backup
__init__ ==
    \E l \in {_load_state(primary, backup)} :
    /\ ~alive
    /\ UNCHANGED backup
    /\ IF l.raised
       THEN /\ last_call' = [Call("__init__", 0, 0, "", <<>>) EXCEPT !.raised = TRUE]
            /\ UNCHANGED <<_state, primary, tmp, alive, faults_left, last_write>>
       ELSE IF l.from = "backup"
       THEN \E outcome \in RestoreOutcomes, part \in Partials :
               LET w == _atomic_write(primary, l.data, outcome, part)
                   crashed == outcome \in CrashOutcomes
               IN /\ primary' = w.file
                  /\ tmp' = w.tmp
                  /\ faults_left' = IF outcome = "ok" THEN faults_left
                                    ELSE faults_left - 1
                  /\ alive' = ~crashed
                  /\ _state' = IF crashed THEN <<>> ELSE l.data
                  /\ last_call' = IF crashed THEN NoCall
                                  ELSE Call("__init__", 0, 0, "", <<>>)
                  /\ last_write' = [outcome |-> outcome, doc |-> l.data]
       ELSE /\ _state' = l.data
            /\ alive' = TRUE
            /\ last_call' = Call("__init__", 0, 0, "", <<>>)
            /\ last_write' = NoWrite
            /\ UNCHANGED <<primary, tmp, faults_left>>

\* the process ends (Anki is closed) between two calls
process_exit ==
    /\ alive
    /\ alive' = FALSE
    /\ _state' = <<>>
    /\ last_call' = NoCall
    /\ UNCHANGED <<primary, backup, tmp, faults_left, last_write>>

(***************************************************************************)
(* BatchOrchestrator: DeckOperationDialog's sentence and image loops and   *)
(* BatchTranslator.run                                                     *)
(***************************************************************************)
\* durations are counted in tenths of a second
\* time.sleep(0.1) in _check_batch_continue
PauseSlice == 1
\* interval = 0.5 in _interruptible_sleep
Interval == 5
\* time.sleep(2.0) in _process_sentence_notes
SentenceDelay == 20
\* time.sleep(3.0) in _process_image_notes
ImageDelay == 30
\* batch_delay_seconds at its least: max(1.0, batch_delay_seconds)
MinBatchDelay == 10

DialogKinds == {"sentence", "image"}

\* the lists _collect_notes_from_deck can hand over (a note occurs once)
NoteLists == {<<1, 2>>, <<2>>}

\* self._current_deck_id
_current_deck_id == 1

\* how the work on one item ends: with a result, or with an exception
ItemOutcomes ==
    {[ok |-> TRUE, error |-> ""],
     [ok |-> FALSE, error |-> "timeout"],
     [ok |-> FALSE, error |-> NoKeyError]}

NoDelay == [after |-> 0, cancelled |-> FALSE]

\* the dialog as _setup_ui leaves it, no batch run yet
NoBatch ==
    /\ bpc = "idle"
    /\ batch_kind = ""
    /\ notes_data = <<>>
    /\ item_index = 0
    /\ _cancel_event = FALSE
    /\ _pause_event = FALSE
    /\ elapsed = 0
    /\ attempted = <<>>
    /\ log = <<>>
    /\ last_delay = NoDelay
    /\ cancel_slept = 0
    /\ resumed = ""

\* Python: min(a, b)
Min(a, b) == IF a < b THEN a ELSE b

\* the time slept with the cancel event set, after a sleep of d more
slept_more(d) ==
    IF _cancel_event THEN Min(cancel_slept + d, MaxSlept) ELSE cancel_slept

\* time.sleep in the loop of the given kind
rate_limit(k) == IF k = "sentence" THEN SentenceDelay ELSE ImageDelay

\* the observers of a batch, at its start
FreshBatch(k, ids) ==
    /\ batch_kind' = k
    /\ notes_data' = ids
    /\ item_index' = 0
    /\ elapsed' = 0
    /\ attempted' = <<>>
    /\ log' = <<>>
    /\ last_delay' = NoDelay
    /\ cancel_slept' = 0

\* _run_sentence_batch / _run_image_batch up to the loop: _start_batch_ui
\* clears both events, _init_*_progress starts the run
_run_batch(k, ids) ==
    /\ start_run(_current_deck_id, ids)
    /\ FreshBatch(k, ids)
    /\ _cancel_event' = FALSE
    /\ _pause_event' = FALSE
    /\ bpc' = "check"

\* the user starts a sentence or image batch
start_generation(k, ids) ==
    /\ bpc = "idle"
    /\ _run_batch(k, ids)
    /\ resumed' = ""

\* a pause wait that goes on while the pause event is set
pause_goes_on_ignoring_cancel(pause, cancel) == pause

\* _check_batch_continue: the condition of the while loop
pause_goes_on(pause, cancel) == pause /\ ~cancel

\* the head of the for loop and _check_batch_continue up to its while loop
loop_head ==
    /\ bpc = "check"
    /\ batch_kind \in DialogKinds
    /\ bpc' = IF item_index >= Len(notes_data) THEN "cleanup"
              ELSE IF _cancel_event THEN "cleanup"
              ELSE IF pause_goes_on(_pause_event, _cancel_event) THEN "pause"
              ELSE "events"
    /\ UNCHANGED <<batch_kind, notes_data, item_index, _cancel_event,
                   _pause_event, elapsed, attempted, log, last_delay,
                   cancel_slept, resumed>>
    /\ UNCHANGED ptvars

\* one round of the while loop of _check_batch_continue after its
\* processEvents: time.sleep(0.1), the condition, and the returned value
pause_wait ==
    /\ bpc = "pause"
    /\ cancel_slept' = slept_more(PauseSlice)
    /\ bpc' = IF pause_goes_on(_pause_event, _cancel_event) THEN "pause"
              ELSE IF _cancel_event THEN "cleanup"
              ELSE "events"
    /\ UNCHANGED <<batch_kind, notes_data, item_index, _cancel_event,
                   _pause_event, elapsed, attempted, log, last_delay, resumed>>
    /\ UNCHANGED ptvars

\* after processEvents in the loop body: the work on the item begins
begin_item ==
    /\ bpc = "events"
    /\ attempted' = Append(attempted, notes_data[item_index + 1])
    /\ bpc' = "item"
    /\ UNCHANGED <<batch_kind, notes_data, item_index, _cancel_event,
                   _pause_event, elapsed, log, last_delay, cancel_slept,
                   resumed>>
    /\ UNCHANGED ptvars

\* a loop that gives up at the first failing item
after_item_stop_on_failure(ok) == IF ok THEN "sleep" ELSE "cleanup"

\* where the loop goes after _process_single_sentence / _process_single_image
after_item(ok) == "sleep"

\* _process_single_sentence / _process_single_image from the result on:
\* mark_success, or mark_failure with str(e)
_process_single(outcome) ==
    /\ bpc = "item"
    /\ batch_kind \in DialogKinds
    /\ IF outcome.ok
       THEN mark_success(_current_deck_id, notes_data[item_index + 1])
       ELSE mark_failure(_current_deck_id, notes_data[item_index + 1],
                         outcome.error)
    /\ log' = Append(log, [note |-> notes_data[item_index + 1],
                           outcome |-> outcome, call |-> last_call'])
    /\ bpc' = after_item(outcome.ok)
    /\ UNCHANGED <<batch_kind, notes_data, item_index, _cancel_event,
                   _pause_event, elapsed, attempted, last_delay, cancel_slept,
                   resumed>>

\* time.sleep(2.0) / time.sleep(3.0) at the end of the loop body
rate_limit_sleep ==
    /\ bpc = "sleep"
    /\ last_delay' = [after |-> item_index + 1, cancelled |-> _cancel_event]
    /\ cancel_slept' = slept_more(rate_limit(batch_kind))
    /\ item_index' = item_index + 1
    /\ bpc' = "check"
    /\ UNCHANGED <<batch_kind, notes_data, _cancel_event, _pause_event,
                   elapsed, attempted, log, resumed>>
    /\ UNCHANGED ptvars

\* a cleanup that deletes the run also after a cancellation
clears_run_always(cancel) == TRUE

\* _cleanup_sentence_batch / _cleanup_image_batch: clear_run is called
clears_run(cancel) == ~cancel

\* _cleanup_sentence_batch / _cleanup_image_batch, then _on_finished
_cleanup_batch ==
    /\ bpc = "cleanup"
    /\ IF clears_run(_cancel_event)
       THEN clear_run(_current_deck_id)
       ELSE UNCHANGED ptvars
    /\ bpc' = "done"
    /\ UNCHANGED <<batch_kind, notes_data, item_index, _cancel_event,
                   _pause_event, elapsed, attempted, log, last_delay,
                   cancel_slept, resumed>>

\* the UI thread handles a click only in processEvents (in the pause wait
\* and before an item); a translation runs on a worker thread, so that the
\* UI thread handles clicks at any time
HandlesClicks ==
    IF batch_kind = "translation"
    THEN bpc \in {"check", "item", "delay", "slice"}
    ELSE bpc \in {"pause", "events"}

\* _stop_operation (a second click would set the same events again)
_stop_operation ==
    /\ HandlesClicks
    /\ ~_cancel_event
    /\ _cancel_event' = TRUE
    /\ _pause_event' = TRUE
    /\ UNCHANGED <<bpc, batch_kind, notes_data, item_index, elapsed, attempted,
                   log, last_delay, cancel_slept, resumed>>
    /\ UNCHANGED ptvars

\* _toggle_pause (the pause button is enabled by _start_batch_ui and
\* disabled by _stop_operation)
_toggle_pause ==
    /\ HandlesClicks
    /\ batch_kind \in DialogKinds
    /\ ~_cancel_event
    /\ _pause_event' = ~_pause_event
    /\ UNCHANGED <<bpc, batch_kind, notes_data, item_index, _cancel_event,
                   elapsed, attempted, log, last_delay, cancel_slept, resumed>>
    /\ UNCHANGED ptvars

\* _start_translation / _start_batch_operation: the cancel event is
\* cleared and the worker started; it keeps no run in the tracker
start_translation(ids) ==
    /\ bpc = "idle"
    /\ FreshBatch("translation", ids)
    /\ _cancel_event' = FALSE
    /\ bpc' = "check"
    /\ resumed' = ""
    /\ UNCHANGED _pause_event
    /\ UNCHANGED ptvars

\* BatchTranslator.run: the head of the for loop over the batches
translator_loop_head ==
    /\ bpc = "check"
    /\ batch_kind = "translation"
    /\ IF item_index >= Len(notes_data) \/ _cancel_event
       THEN bpc' = "done" /\ UNCHANGED attempted
       ELSE /\ bpc' = "item"
            /\ attempted' = Append(attempted, notes_data[item_index + 1])
    /\ UNCHANGED <<batch_kind, notes_data, item_index, _cancel_event,
                   _pause_event, elapsed, log, last_delay, cancel_slept,
                   resumed>>
    /\ UNCHANGED ptvars

\* BatchTranslator.run: the batch is translated or has failed (errors are
\* ignored), progress is emitted, and the delay is entered unless cancelled
translate_batch_done(outcome) ==
    /\ bpc = "item"
    /\ batch_kind = "translation"
    /\ log' = Append(log, [note |-> notes_data[item_index + 1],
                           outcome |-> outcome, call |-> NoCall])
    /\ elapsed' = 0
    /\ IF _cancel_event
       THEN bpc' = "check" /\ item_index' = item_index + 1
       ELSE bpc' = "delay" /\ UNCHANGED item_index
    /\ UNCHANGED <<batch_kind, notes_data, _cancel_event, _pause_event,
                   attempted, last_delay, cancel_slept, resumed>>
    /\ UNCHANGED ptvars

\* _interruptible_sleep: the condition of the while loop
sleep_goes_on(done, seconds, cancel) == done < seconds /\ ~cancel

\* _interruptible_sleep: the condition is evaluated and a slice begun, or
\* the sleep is over and the next batch is due
interruptible_sleep_check ==
    /\ bpc = "delay"
    /\ IF sleep_goes_on(elapsed, MinBatchDelay, _cancel_event)
       THEN /\ bpc' = "slice"
            /\ last_delay' = IF elapsed = 0
                             THEN [after |-> item_index + 1,
                                   cancelled |-> _cancel_event]
                             ELSE last_delay
            /\ UNCHANGED item_index
       ELSE /\ bpc' = "check"
            /\ item_index' = item_index + 1
            /\ UNCHANGED last_delay
    /\ UNCHANGED <<batch_kind, notes_data, _cancel_event, _pause_event,
                   elapsed, attempted, log, cancel_slept, resumed>>
    /\ UNCHANGED ptvars

\* _interruptible_sleep: time.sleep(min(interval, seconds - elapsed)) is
\* over; the cancel event may have been set while it ran
interruptible_sleep_slice ==
    /\ bpc = "slice"
    /\ elapsed' = elapsed + Interval
    /\ cancel_slept' = slept_more(Min(Interval, MinBatchDelay - elapsed))
    /\ bpc' = "delay"
    /\ UNCHANGED <<batch_kind, notes_data, item_index, _cancel_event,
                   _pause_event, attempted, log, last_delay, resumed>>
    /\ UNCHANGED ptvars

\* the dialog is closed after its batch, or the process dies at any point
close_or_crash ==
    /\ process_exit
    /\ bpc' = "closed"
    /\ batch_kind' = ""
    /\ notes_data' = <<>>
    /\ item_index' = 0
    /\ _cancel_event' = FALSE
    /\ _pause_event' = FALSE
    /\ elapsed' = 0
    /\ attempted' = <<>>
    /\ log' = <<>>
    /\ last_delay' = NoDelay
    /\ cancel_slept' = 0
    /\ UNCHANGED resumed

\* get_all_runs / _check_pending_operations: the first deck with pending
\* items (0 if there is none); the dialog starts runs for one deck, so that
\* the first one is the only one
pending_deck(st) ==
    IF \E d \in DeckIds : StrOf[d] \in DOMAIN st /\ st[StrOf[d]].pending # <<>>
    THEN CHOOSE d \in DeckIds :
            /\ StrOf[d] \in DOMAIN st /\ st[StrOf[d]].pending # <<>>
            /\ \A e \in DeckIds :
                  (StrOf[e] \in DOMAIN st /\ st[StrOf[e]].pending # <<>>) => d <= e
    ELSE 0

\* DeckOperationDialog.__init__: the tracker is constructed over the
\* directory, and _check_pending_operations asks the user when it finds a
\* run with pending items
open_dialog ==
    /\ bpc = "closed"
    /\ __init__
    /\ bpc' = IF ~alive' THEN "closed"
              ELSE IF pending_deck(_state') # 0 THEN "ask"
              ELSE "idle"
    /\ resumed' = ""
    /\ UNCHANGED <<batch_kind, notes_data, item_index, _cancel_event,
                   _pause_event, elapsed, attempted, log, last_delay,
                   cancel_slept>>

\* describe_run: the summary of a run (it has no "extra_info")
describe_run(the_run) ==
    [pending_count |-> Len(the_run.pending),
     failed_count |-> Len(the_run.failed),
     total |-> the_run.total,
     operation |-> the_run.operation]

\* _resume_sentence_batch / _resume_image_batch: the notes rebuilt from the
\* pending ids; extra = run_info.get("extra_info", {}) and a note is taken
\* only when extra.get("word_field", "") names one of its fields
rebuilt_notes(pending_ids, run_info) ==
    IF "extra_info" \in DOMAIN run_info THEN pending_ids ELSE <<>>

\* _resume_pending_operation: what it decides
resume_decision(the_run) ==
    LET run_info == describe_run(the_run)
        run_type == run_info.operation
        notes == rebuilt_notes(the_run.pending, run_info)
    IN IF run_type \in DialogKinds
       THEN IF notes = <<>>
            THEN [starts |-> FALSE, kind |-> run_type, notes |-> notes,
                  says |-> "No pending notes could be loaded."]
            ELSE [starts |-> TRUE, kind |-> run_type, notes |-> notes, says |-> ""]
       ELSE IF run_type = "translation"
       THEN [starts |-> FALSE, kind |-> run_type, notes |-> notes,
             says |-> "Translation resume not yet implemented."]
       ELSE [starts |-> FALSE, kind |-> run_type, notes |-> notes,
             says |-> "Unknown operation type"]

\* the user answers the questions of _check_pending_operations: resume, or
\* clear the interrupted operation, or neither
answer_resume(choice) ==
    /\ bpc = "ask"
    /\ LET deck_id == pending_deck(_state)
           d == resume_decision(_state[StrOf[deck_id]])
       IN IF choice = "resume"
          THEN IF d.starts
               THEN _run_batch(d.kind, d.notes) /\ resumed' = "started"
               ELSE /\ resumed' = d.says
                    /\ bpc' = "idle"
                    /\ UNCHANGED <<batch_kind, notes_data, item_index,
                                   _cancel_event, _pause_event, elapsed,
                                   attempted, log, last_delay, cancel_slept>>
                    /\ UNCHANGED ptvars
          ELSE /\ IF choice = "clear"
                  THEN clear_run(deck_id)
                  ELSE UNCHANGED ptvars
               /\ resumed' = "declined"
               /\ bpc' = "idle"
               /\ UNCHANGED <<batch_kind, notes_data, item_index,
                              _cancel_event, _pause_event, elapsed, attempted,
                              log, last_delay, cancel_slept>>

\* the user may start another batch after one has finished
batch_over ==
    /\ bpc = "done"
    /\ bpc' = "idle"
    /\ UNCHANGED <<batch_kind, notes_data, item_index, _cancel_event,
                   _pause_event, elapsed, attempted, log, last_delay,
                   cancel_slept, resumed>>
    /\ UNCHANGED ptvars

\* a GeminiClient made by get_gemini_client(), before any call
NoClient ==
    /\ _api_key = NoKey
    /\ configured_key = NoKey
    /\ pc = "idle"
    /\ attempt = 1
    /\ max_retries = 0
    /\ response = NoResponse
    /\ result = NoResult
    /\ calls = 0
    /\ failed_calls = 0
    /\ successes = 0
    /\ invocations = 0

\* a ProgressStateManager over a directory without documents
NoTracker ==
    /\ _state = <<>>
    /\ primary = NoFile
    /\ backup = NoFile
    /\ last_call = NoCall
    /\ tmp = NoFile
    /\ alive = TRUE
    /\ faults_left = 0
    /\ last_write = NoWrite

(***************************************************************************)
(* APIKeyManager: api_keys.json and api_stats.json                         *)
(***************************************************************************)
ENCRYPTION_ENABLED == TRUE

\* the key that _derive_encryption_key makes of an add-on directory: the 32
\* bytes of PBKDF2-HMAC-SHA256 for "/addons21/stella_anki_tools"
EncryptionKey ==
    <<203, 143, 245, 121, 47, 44, 84, 24, 13, 149, 22, 32, 232, 130, 249, 74,
      9, 220, 225, 195, 99, 100, 97, 6, 250, 47, 72, 92, 49, 174, 151, 208>>

\* the characters with codes 32 to 95 and 97 to 126, in the order of their
\* codes (no text of the model holds the character of code 96)
AsciiLow ==
    " !\"#$%&'()*+,-./0123456789:;<=>?@ABCDEFGHIJKLMNOPQRSTUVWXYZ[\\]^_"

AsciiHigh == "abcdefghijklmnopqrstuvwxyz{|}~"

Ord(c) ==
    IF Contains(AsciiLow, c)
    THEN 31 + CHOOSE i \in 1..Len(AsciiLow) : SubSeq(AsciiLow, i, i) = c
    ELSE 96 + CHOOSE i \in 1..Len(AsciiHigh) : SubSeq(AsciiHigh, i, i) = c

Chr(n) ==
    IF n < 96 THEN SubSeq(AsciiLow, n - 31, n - 31)
    ELSE SubSeq(AsciiHigh, n - 96, n - 96)

\* str.encode('utf-8'), for text of these characters
encode(s) == [i \in 1..Len(s) |-> Ord(SubSeq(s, i, i))]

\* whether bytes.decode('utf-8') yields text of these characters
Decodable(bs) ==
    \A i \in 1..Len(bs) : bs[i] >= 32 /\ bs[i] <= 126 /\ bs[i] # 96

\* bytes.decode('utf-8')
RECURSIVE decode(_)
decode(bs) ==
    IF Len(bs) = 0 THEN ""
    ELSE IF Len(bs) = 1 THEN Chr(bs[1])
    ELSE decode(SubSeq(bs, 1, Len(bs) \div 2))
            \o decode(SubSeq(bs, (Len(bs) \div 2) + 1, Len(bs)))

\* a ^ b on bytes
RECURSIVE Xor(_, _)
Xor(a, b) ==
    IF a = 0 THEN b
    ELSE IF b = 0 THEN a
    ELSE ((a + b) % 2) + 2 * Xor(a \div 2, b \div 2)

\* bytes(a ^ b for a, b in zip(data_bytes, key_extended))
xor_bytes(bs, key) ==
    [i \in 1..Len(bs) |-> Xor(bs[i], key[((i - 1) % Len(key)) + 1])]

\* the alphabet of base64.urlsafe_b64encode
Base64Chars == "ABCDEFGHIJKLMNOPQRSTUVWXYZabcdefghijklmnopqrstuvwxyz0123456789-_"

B64(n) == SubSeq(Base64Chars, n + 1, n + 1)
B64Value(c) ==
    (CHOOSE i \in 1..Len(Base64Chars) : SubSeq(Base64Chars, i, i) = c) - 1

\* base64.urlsafe_b64encode(bs).decode('utf-8')
RECURSIVE urlsafe_b64encode(_)
urlsafe_b64encode(bs) ==
    IF Len(bs) = 0 THEN ""
    ELSE IF Len(bs) = 1
    THEN B64(bs[1] \div 4) \o B64((bs[1] % 4) * 16) \o "=="
    ELSE IF Len(bs) = 2
    THEN B64(bs[1] \div 4) \o B64((bs[1] % 4) * 16 + (bs[2] \div 16))
            \o B64((bs[2] % 16) * 4) \o "="
    ELSE B64(bs[1] \div 4) \o B64((bs[1] % 4) * 16 + (bs[2] \div 16))
            \o B64((bs[2] % 16) * 4 + (bs[3] \div 64)) \o B64(bs[3] % 64)
            \o urlsafe_b64encode(SubSeq(bs, 4, Len(bs)))

\* whether base64.urlsafe_b64decode takes s: groups of four characters of
\* the alphabet, the last one padded with one or two '='
WellPadded(s) ==
    LET n == Len(s)
        body == IF n >= 1 /\ SubSeq(s, n, n) = "="
                THEN IF n >= 2 /\ SubSeq(s, n - 1, n - 1) = "=" THEN n - 2
                     ELSE n - 1
                ELSE n
    IN /\ n % 4 = 0
       /\ n - body <= 2
       /\ \A i \in 1..body : Contains(Base64Chars, SubSeq(s, i, i))

\* base64.urlsafe_b64decode(s) of such a text
RECURSIVE urlsafe_b64decode(_)
urlsafe_b64decode(s) ==
    IF Len(s) = 0 THEN <<>>
    ELSE LET v1 == B64Value(SubSeq(s, 1, 1))
             v2 == B64Value(SubSeq(s, 2, 2))
             c3 == SubSeq(s, 3, 3)
             c4 == SubSeq(s, 4, 4)
         IN IF c3 = "=" THEN <<v1 * 4 + (v2 \div 16)>>
            ELSE IF c4 = "="
            THEN <<v1 * 4 + (v2 \div 16),
                   (v2 % 16) * 16 + (B64Value(c3) \div 4)>>
            ELSE <<v1 * 4 + (v2 \div 16),
                   (v2 % 16) * 16 + (B64Value(c3) \div 4),
                   (B64Value(c3) % 4) * 64 + B64Value(c4)>>
                    \o urlsafe_b64decode(SubSeq(s, 5, Len(s)))

_simple_encrypt(data, key) ==
    IF data = "" THEN ""
    ELSE urlsafe_b64encode(xor_bytes(encode(data), key))

\* _simple_decrypt: what it is handed comes back when the decoding raises
_simple_decrypt(encrypted_data, key) ==
    IF encrypted_data = "" THEN ""
    ELSE IF ~WellPadded(encrypted_data) THEN encrypted_data
    ELSE IF ~Decodable(xor_bytes(urlsafe_b64decode(encrypted_data), key))
    THEN encrypted_data
    ELSE decode(xor_bytes(urlsafe_b64decode(encrypted_data), key))

\* both, for the secrets a store of the model can hold, computed once
Encrypted ==
    [k \in {k \in StrippedInputs : add_key_refusal(<<>>, k) = NoVal} |->
        _simple_encrypt(k, EncryptionKey)]

Decrypted ==
    [c \in {Encrypted[k] : k \in DOMAIN Encrypted} |->
        _simple_decrypt(c, EncryptionKey)]

\* APIKeyManagerState.to_dict(encrypt, encryption_key); the statistics are
\* the records and their counters
to_dict(ks, idx, st, u, rot, encrypt) ==
    [current_key_index |-> idx,
     keys |-> IF encrypt /\ Len(ks) > 0
              THEN [i \in 1..Len(ks) |-> Encrypted[ks[i]]] ELSE ks,
     stats |-> <<st, u>>,
     total_rotations |-> rot,
     encrypted |-> encrypt]

\* a load that reads the stored credentials as they are
from_dict_keys_undecoded(data) == data.keys

\* APIKeyManagerState.from_dict(data, encryption_key): the key list
from_dict_keys(data) ==
    IF data.encrypted /\ Len(data.keys) > 0
    THEN [i \in 1..Len(data.keys) |->
            IF StartsWith(Decrypted[data.keys[i]], "AIza")
                  \/ ~StartsWith(data.keys[i], "AIza")
            THEN Decrypted[data.keys[i]] ELSE data.keys[i]]
    ELSE data.keys

\* APIKeyManagerState(): the state before anything is loaded
EmptyState ==
    [keys |-> <<>>, current_key_index |-> 0, stats |-> <<<<>>, <<>>>>,
     total_rotations |-> 0]

\* _load_state: the state after it, from the state s before it (a file that
\* does not load leaves an empty state)
km_load_state(s, file) ==
    IF file.kind = "absent" THEN s
    ELSE IF file.kind = "json_object"
    THEN [keys |-> from_dict_keys(file.data),
          current_key_index |-> file.data.current_key_index,
          stats |-> file.data.stats,
          total_rotations |-> file.data.total_rotations]
    ELSE EmptyState

\* _load_stats: a file that does not load leaves the statistics of the
\* credentials document
km_load_stats(s, file) ==
    IF file.kind = "json_object" THEN [s EXCEPT !.stats = file.data] ELSE s

\* the credential list and the index of a store
Store(ks, idx) == [keys |-> ks, current_key_index |-> idx]

\* done: the last _save_state wrote its document to the end
NoSaved == [old |-> Store(<<>>, 0), new |-> Store(<<>>, 0), done |-> FALSE]

\* how a handler's writes end: all done; the process dies before
\* _save_state opens the file, after open(path, "w") has emptied it, or
\* while json.dump writes into it; or it dies in _save_stats the same way
SaveOutcomes ==
    {"ok", "crash_before_open", "crash_after_open", "crash_in_dump",
     "crash_in_stats"}

\* open(path, "w") and json.dump(data, f): the file after them
written(file, data, outcome, part) ==
    IF outcome = "crash_before_open" THEN file
    ELSE IF outcome = "crash_after_open" THEN InvalidJson
    ELSE IF outcome = "crash_in_dump" THEN part
    ELSE json_dump(data)

\* _save_state, and _save_stats when the handler calls it, at the end of a
\* handler that leaves the primed state
saves(state_saved, stats_saved, outcome, part) ==
    /\ up
    /\ keys_file' =
          IF state_saved
          THEN written(keys_file,
                       to_dict(keys', current_key_index', stats', usage',
                               total_rotations', ENCRYPTION_ENABLED),
                       outcome, part)
          ELSE keys_file
    /\ stats_file' =
          IF stats_saved /\ outcome = "ok" THEN json_dump(<<stats', usage'>>)
          ELSE IF stats_saved /\ outcome = "crash_in_stats" THEN part
          ELSE stats_file
    /\ up' = (outcome = "ok" \/ ~(state_saved \/ stats_saved))
    /\ saved' = IF state_saved
                THEN [old |-> Store(keys, current_key_index),
                      new |-> Store(keys', current_key_index'),
                      done |-> outcome \in {"ok", "crash_in_stats"}]
                ELSE saved

\* the process ends, and a new one makes the APIKeyManager: __init__ with
\* _load_state and _load_stats
restart ==
    LET s == km_load_stats(km_load_state(EmptyState, keys_file), stats_file) IN
    /\ ~up
    /\ up' = TRUE
    /\ keys' = s.keys
    /\ current_key_index' = s.current_key_index
    /\ stats' = s.stats[1]
    /\ usage' = s.stats[2]
    /\ total_rotations' = s.total_rotations
    /\ ret' = NoRet
    /\ arg' = Arg("restart", "", 0)
    /\ UNCHANGED <<now, keys_file, stats_file, saved>>

\* Anki is closed
quit ==
    /\ up
    /\ up' = FALSE
    /\ ret' = NoRet
    /\ arg' = Arg("quit", "", 0)
    /\ UNCHANGED <<keys, current_key_index, stats, usage, total_rotations, now,
                   keys_file, stats_file, saved>>

\* no counter followed, no call under way in any thread, no credentials
\* document written
NoCounts == usage = <<>> /\ arg = NoArg

NoThreads ==
    /\ tpc = [t \in Threads |-> "idle"]
    /\ tlocal = [t \in Threads |-> NoLocal]
    /\ returned = <<>>

NoKeysFile ==
    /\ keys_file = NoFile
    /\ stats_file = NoFile
    /\ up = TRUE
    /\ saved = NoSaved

NoEntry ==
    /\ last_error = ""
    /\ entry = ""
    /\ epc = "idle"
    /\ eattempt = 0
    /\ entry_result = NoResult
    /\ issuers = {}
    /\ _client = NoKey

NoMore == NoCounts /\ NoThreads /\ NoKeysFile /\ NoEntry

\* a step of the key manager alone
RotatorOnly == UNCHANGED <<genvars, ptvars, batchvars, morevars>>

\* the credential lists api_keys.json can hold: the lists without
\* repetition over the valid keys (keyA and keyB, which share their masked
\* identifier, are interchangeable, so keyA comes first of the two); of the
\* lists of three, the one with keyC between the two
IsPool(ks) ==
    /\ \A i, j \in 1..Len(ks) : i # j => ks[i] # ks[j]
    /\ \A j \in 1..Len(ks) : ks[j] = keyB => \E i \in 1..(j - 1) : ks[i] = keyA
    /\ Len(ks) >= 3 => ks = <<keyA, keyC, keyB>>

Pools ==
    {ks \in UNION {[1..n -> ValidKeys] : n \in 0..MaxPool} : IsPool(ks)}

\* the manager as its constructor leaves it, over the files it loads
Init ==
    /\ keys \in Pools
    /\ current_key_index = 0
    /\ stats \in InitStats
    /\ total_rotations = 0
    /\ now = 0
    /\ ret = NoRet
    /\ run = 0
    /\ step = IF Len(keys) = 2 /\ stats = <<>> THEN 0 ELSE -1
    /\ NoClient
    /\ NoTracker
    /\ NoBatch
    /\ NoMore

\* the rotator at work on a loaded pool
Next ==
    \/ get_current_key /\ Untracked /\ RotatorOnly
    \/ rotate_to_next_key /\ Untracked /\ RotatorOnly
    \/ \E index \in 0..Len(keys) :
          force_set_current_key(index) /\ Untracked /\ RotatorOnly
    \/ record_success /\ Untracked /\ RotatorOnly
    \/ \E reason \in Reasons :
          record_failure(reason) /\ TrackRun(reason) /\ TrackStep(reason)
             /\ RotatorOnly
    \/ \E index \in 0..Len(keys) :
          reset_key_cooldown(index) /\ Untracked /\ RotatorOnly
    \/ Tick /\ UNCHANGED runvars /\ RotatorOnly

Spec == Init /\ [][Next]_vars

(***************************************************************************)
(* The rotator's contracts, checked under Spec                             *)
(***************************************************************************)
\* the credential at the current index
CurrentKey == keys[current_key_index + 1]

\* C1: record_failure with a quota/rate-limit reason marks the credential
\* that get_current_key returned at the call as cooling down from the time
\* of the call, whatever its consecutive-failure count, and with two or more
\* credentials in the pool it attempts rotation within the same call (the
\* call returns the value of rotate_to_next_key, which is never empty).
C1_QuotaFailureStartsCooldown ==
    (ret.op = "record_failure" /\ ret.quota /\ ret.key # NoKey) =>
        /\ KeyIdOf[ret.key] \in DOMAIN stats
        /\ stats[KeyIdOf[ret.key]].exhausted_at = now
        /\ CoolingDown(stats, ret.key, now)
        /\ (Len(keys) >= 2 => ret.val # NoVal)

\* C1 happens: a first quota failure, in a pool of two, that rotated
C1_Witness ==
    /\ ret.op = "record_failure" /\ ret.quota /\ ret.key # NoKey
    /\ Len(keys) >= 2
    /\ ret.ok
    /\ stats[KeyIdOf[ret.key]].consecutive_failures = 1
    /\ stats[KeyIdOf[ret.key]].exhausted_at = now

\* C2: in a run of non-quota failures that starts at count 0 in a pool of
\* two or more with another credential usable, calls 1 to 4 do not rotate
\* and call 5 does; with exactly one credential, record_failure and
\* rotate_to_next_key never report a rotation.
C2_RotationAtThreshold ==
    /\ (ret.op = "record_failure" /\ run >= 1 /\ run < FAILURE_THRESHOLD) =>
          (~ret.ok /\ CurrentKey = ret.key)
    /\ (ret.op = "record_failure" /\ run = FAILURE_THRESHOLD) =>
          (ret.ok /\ CurrentKey # ret.key)
    /\ (Len(keys) = 1 /\ ret.op \in {"record_failure", "rotate_to_next_key"}) =>
          ~ret.ok

\* C2 happens: the fifth call of a run has rotated
C2_Witness ==
    /\ ret.op = "record_failure" /\ run = FAILURE_THRESHOLD /\ ret.ok
    /\ ~ret.quota

\* C3: rotate_to_next_key on a pool of two or more with another credential
\* usable makes current the first usable credential in cyclic order after
\* the current index, adds exactly 1 to total_rotations and returns success
\* with that credential's masked id; the credential it makes current is
\* neither deactivated nor cooling down.
C3_RotateTakesFirstUsable ==
    [][(rotate_to_next_key /\ Len(keys) >= 2
           /\ OtherUsable(keys, current_key_index, stats, now)) =>
         LET j == FirstOther(keys, current_key_index, stats, now) IN
         /\ current_key_index' = j
         /\ total_rotations' = total_rotations + 1
         /\ ret'.ok
         /\ ret'.val = MaskedId(keys[j + 1])
         /\ Usable(stats, keys[j + 1], now)
         /\ Usable(stats', keys[j + 1], now)
         /\ ~CoolingDown(stats', keys[j + 1], now)]_vars

\* C3 happens: a rotation in a pool of three that skipped a credential
C3_Witness ==
    /\ ret.op = "rotate_to_next_key" /\ ret.ok
    /\ Len(keys) = 3
    /\ \E i \in 1..3 : i # current_key_index + 1 /\ ~Usable(stats, keys[i], now)
    /\ Usable(stats, CurrentKey, now)

\* C4: rotate_to_next_key fails with fewer than two credentials, and fails
\* with "all exhausted" when no credential other than the current one is
\* usable; either way current_key_index and total_rotations stay as they
\* were.
C4_RotateFailureFrame ==
    [][rotate_to_next_key =>
         /\ (Len(keys) < 2 =>
               /\ ~ret'.ok
               /\ current_key_index' = current_key_index
               /\ total_rotations' = total_rotations)
         /\ (Len(keys) >= 2
               /\ ~OtherUsable(keys, current_key_index, stats, now) =>
               /\ ~ret'.ok
               /\ ret'.val = AllExhausted
               /\ current_key_index' = current_key_index
               /\ total_rotations' = total_rotations)]_vars

\* C4 happens: a rotation in a pool of three found every other credential
\* unusable, the current one being usable
C4_Witness ==
    /\ ret.op = "rotate_to_next_key" /\ ~ret.ok /\ ret.val = AllExhausted
    /\ Len(keys) = 3
    /\ Usable(stats, CurrentKey, now)

\* C5: get_current_key returns None only on an empty pool; otherwise it
\* returns the credential at the current index if usable, else adopts and
\* returns the first usable credential scanning forward, and with no usable
\* credential returns the one at index 0.
C5_CurrentKey ==
    [][get_current_key =>
         /\ (ret'.key = NoKey <=> Len(keys) = 0)
         /\ (Len(keys) > 0 =>
               IF Usable(stats, CurrentKey, now)
               THEN ret'.key = CurrentKey
                    /\ current_key_index' = current_key_index
               ELSE IF OtherUsable(keys, current_key_index, stats, now)
               THEN LET j == FirstOther(keys, current_key_index, stats, now) IN
                    ret'.key = keys[j + 1] /\ current_key_index' = j
               ELSE ret'.key = keys[1])]_vars

\* C5 happens: nothing is usable, the current index is not 0, and the
\* credential at index 0 was returned
C5_Witness ==
    /\ ret.op = "get_current_key"
    /\ Len(keys) >= 2
    /\ current_key_index # 0
    /\ \A i \in 1..Len(keys) : ~Usable(stats, keys[i], now)
    /\ ret.key = keys[1] /\ ret.key # CurrentKey

\* C6: a credential in cooldown since t is not handed out as usable by a
\* query before t + 24h and is by the first query at or after t + 24h,
\* which clears its exhausted timestamp and resets its consecutive-failure
\* count; the passing of time alone changes no record; a deactivated
\* credential is never usable; and no operation deactivates a credential.
C6_CooldownLifecycle ==
    [][/\ (get_current_key /\ Len(keys) > 0) =>
            LET id == KeyIdOf[CurrentKey] IN
            (id \in DOMAIN stats /\ stats[id].exhausted_at # NoTime) =>
               IF stats[id].is_active
                  /\ now >= stats[id].exhausted_at + KEY_COOLDOWN_HOURS
               THEN /\ ret'.key = CurrentKey
                    /\ stats'[id].exhausted_at = NoTime
                    /\ stats'[id].consecutive_failures = 0
               ELSE /\ stats'[id] = stats[id]
                    /\ (ret'.key = CurrentKey =>
                          /\ current_key_index = 0
                          /\ \A i \in 1..Len(keys) : ~Usable(stats, keys[i], now))
       /\ (ret'.op \in {"get_current_key", "rotate_to_next_key",
                        "record_success", "record_failure"}
             /\ current_key_index' # current_key_index) =>
            LET id == KeyIdOf[keys[current_key_index' + 1]] IN
            id \in DOMAIN stats =>
               /\ stats[id].is_active
               /\ \/ stats[id].exhausted_at = NoTime
                  \/ now >= stats[id].exhausted_at + KEY_COOLDOWN_HOURS
       /\ now' # now => stats' = stats
       /\ \A id \in DOMAIN stats' :
            ~stats'[id].is_active => (id \in DOMAIN stats /\ ~stats[id].is_active)
      ]_vars

\* C6 happens: a query a full cooldown after the start of the clock handed
\* out a credential whose expired cooldown it cleared
C6_Witness ==
    /\ ret.op = "get_current_key"
    /\ ret.key # NoKey
    /\ KeyIdOf[ret.key] \in ret.cleared
    /\ now >= KEY_COOLDOWN_HOURS
    /\ stats[KeyIdOf[ret.key]].exhausted_at = NoTime
    /\ stats[KeyIdOf[ret.key]].consecutive_failures = 0

\* C7: on a pool of two with the first credential current and fresh stats,
\* after 5 non-quota failures the second credential is current and the
\* first is not cooling down; one quota failure more puts the second into
\* cooldown, the rotation succeeds, and the first is current again.
C7_Scenario ==
    /\ (step = FAILURE_THRESHOLD /\ ret.op = "record_failure") =>
          /\ CurrentKey = keys[2]
          /\ ~CoolingDown(stats, keys[1], now)
    /\ (step = FAILURE_THRESHOLD + 1 /\ ret.op = "record_failure") =>
          /\ CoolingDown(stats, keys[2], now)
          /\ ret.ok
          /\ CurrentKey = keys[1]

\* C7 goes wrong: the scenario was played to its end, the two credentials
\* share one masked id, and the last call found nothing to rotate to
C7_Failure ==
    /\ step = FAILURE_THRESHOLD + 1 /\ ret.op = "record_failure"
    /\ KeyIdOf[keys[1]] = KeyIdOf[keys[2]]
    /\ ~ret.ok /\ ret.val = AllExhausted
    /\ current_key_index = 1

(***************************************************************************)
(* generate_text at work, with other callers of the key manager            *)
(***************************************************************************)
GenPools == {<<>>, <<keyA>>, <<keyA, keyC>>}

GenInit ==
    /\ keys \in GenPools
    /\ current_key_index = 0
    /\ stats = <<>>
    /\ total_rotations = 0
    /\ now = 0
    /\ ret = NoRet
    /\ run = 0
    /\ step = -1
    /\ NoClient
    /\ NoTracker
    /\ NoBatch
    /\ NoMore

GenNext ==
    \/ \E mr \in 0..MaxRetries : generate_text(mr)
    \/ generate_content
    \/ \E resp \in Responses : generate_content_done(resp)
    \/ \E index \in 0..Len(keys) :
          force_set_current_key(index) /\ Untracked /\ RotatorOnly
    \/ rotate_to_next_key /\ Untracked /\ RotatorOnly

SpecGen == GenInit /\ [][GenNext]_vars

\* the thread in generate_text keeps running: a call that is in flight
\* comes back (with a response or an exception), and an attempt that is due
\* is made
SpecGenFair ==
    /\ SpecGen
    /\ WF_pc(pc = "call" /\ pc' \in {"idle", "attempt"})
    /\ WF_pc(pc = "attempt" /\ pc' \in {"idle", "attempt", "call"})

(***************************************************************************)
(* The tracker at work                                                     *)
(***************************************************************************)
TrackerInit ==
    /\ keys = <<>>
    /\ current_key_index = 0
    /\ stats = <<>>
    /\ total_rotations = 0
    /\ now = 0
    /\ ret = NoRet
    /\ run = 0
    /\ step = -1
    /\ NoClient
    /\ NoTracker
    /\ NoBatch
    /\ NoMore

TrackerOnly == UNCHANGED <<kmvars, runvars, genvars, batchvars, morevars>>

TrackerNext ==
    \/ \E d \in RunDecks, ids \in IdLists :
          start_run(d, ids) /\ TrackerOnly
    \/ \E d \in DeckIds, ids \in IdLists :
          update_pending(d, ids) /\ TrackerOnly
    \/ \E d \in DeckIds, n \in NoteIds :
          mark_success(d, n) /\ TrackerOnly
    \/ \E d \in DeckIds, n \in NoteIds, m \in Messages :
          mark_failure(d, n, m) /\ TrackerOnly
    \/ \E d \in DeckIds : clear_run(d) /\ TrackerOnly
    \/ \E d \in DeckIds :
          reset_failures_to_pending(d) /\ TrackerOnly

SpecTracker == TrackerInit /\ [][TrackerNext]_vars

(***************************************************************************)
(* The gateway's contracts, checked under SpecGen and SpecGenFair          *)
(***************************************************************************)
\* C8: every generation call is made with the credential get_current_key
\* returns at the moment it is issued, and a success is recorded against
\* the credential the call was made with.
C8_CallUsesCurrentKey ==
    [][/\ (pc = "attempt" /\ pc' = "call") =>
            configured_key' =
               do_get_current_key(keys, current_key_index, stats, now).key
       /\ (pc = "call" /\ result'.kind = "return") =>
            ret'.key = configured_key]_vars

\* C8 goes wrong: a call is in flight with a credential that is neither at
\* the current index nor what get_current_key returns, both credentials
\* being usable and their masked ids different
C8_Failure ==
    /\ pc = "call"
    /\ Len(keys) = 2
    /\ configured_key # CurrentKey
    /\ configured_key # do_get_current_key(keys, current_key_index, stats, now).key
    /\ KeyIdOf[configured_key] # KeyIdOf[CurrentKey]
    /\ Usable(stats, CurrentKey, now)
    /\ Usable(stats, configured_key, now)

\* what counts as a failed call: no response, a blank text, an exception
FailedResponse(resp) ==
    \/ resp.kind \in {"none", "error"}
    \/ resp.kind = "text" /\ Strip(resp.text) = ""

\* C9: generate_text ends after at most max_retries generation calls; it
\* returns the (stripped) text of the first call whose response is not
\* blank, after recording one success, every call before it having failed;
\* it raises the terminal error when all max_retries calls failed; a call
\* without response or with an empty text is a failed call, which is
\* charged to the key manager and never returned.
C9_Safe ==
    /\ calls <= max_retries
    /\ failed_calls <= calls
    /\ successes <= 1
    /\ result.kind = "return" =>
          /\ pc = "idle"
          /\ ~FailedResponse(response)
          /\ result.text = Strip(response.text)
          /\ result.text # ""
          /\ successes = 1
          /\ failed_calls = calls - 1
    /\ result.kind = "raise" =>
          /\ pc = "idle"
          /\ successes = 0
          /\ failed_calls = calls
    /\ (pc = "idle" /\ invocations > 0 /\ failed_calls = max_retries) =>
          result.kind = "raise"
    /\ (response # NoResponse /\ FailedResponse(response)) =>
          /\ result.kind # "return"
          /\ failed_calls >= 1
    /\ (pc = "idle" /\ invocations > 0) => result.kind \in {"return", "raise"}
    /\ pc # "idle" => result = NoResult

DocA == [k \in {"1"} |-> [pending |-> <<1, 2>>, failed |-> <<>>, total |-> 2,
                          operation |-> _operation]]
DocB == [k \in {"1"} |-> [pending |-> <<2>>, failed |-> <<>>, total |-> 2,
                          operation |-> _operation]]

\* what the directory can hold when a process starts
InitPrimaries == {NoFile, NotUtf8, InvalidJson, NotObject, json_dump(<<>>), json_dump(DocA)}
InitBackups == {NoFile, NotUtf8, InvalidJson, NotObject, json_dump(DocB)}

DiskInit ==
    /\ keys = <<>>
    /\ current_key_index = 0
    /\ stats = <<>>
    /\ total_rotations = 0
    /\ now = 0
    /\ ret = NoRet
    /\ run = 0
    /\ step = -1
    /\ NoClient
    /\ _state = <<>>
    /\ primary \in InitPrimaries
    /\ backup \in InitBackups
    /\ last_call = NoCall
    /\ tmp = NoFile
    /\ alive = FALSE
    /\ faults_left = MaxFaults
    /\ last_write = NoWrite
    /\ NoBatch
    /\ NoMore

\* the id lists handed in by the callers of these behaviours
DiskIdLists == {<<1, 2>>, <<2>>}

DiskNext ==
    \/ __init__ /\ TrackerOnly
    \/ process_exit /\ TrackerOnly
    \/ \E d \in RunDecks, ids \in DiskIdLists :
          start_run(d, ids) /\ TrackerOnly
    \/ \E d \in RunDecks, ids \in DiskIdLists :
          update_pending(d, ids) /\ TrackerOnly
    \/ \E d \in RunDecks, n \in NoteIds :
          mark_success(d, n) /\ TrackerOnly
    \/ \E d \in RunDecks, n \in NoteIds :
          mark_failure(d, n, "timeout") /\ TrackerOnly
    \/ \E d \in RunDecks : clear_run(d) /\ TrackerOnly
    \/ \E d \in RunDecks :
          reset_failures_to_pending(d) /\ TrackerOnly

SpecDisk == DiskInit /\ [][DiskNext]_vars

\* the add-on directory before the first batch, the dialog not yet opened
BatchInit ==
    /\ keys = <<>>
    /\ current_key_index = 0
    /\ stats = <<>>
    /\ total_rotations = 0
    /\ now = 0
    /\ ret = NoRet
    /\ run = 0
    /\ step = -1
    /\ NoClient
    /\ _state = <<>>
    /\ primary = NoFile
    /\ backup = NoFile
    /\ tmp = NoFile
    /\ last_call = NoCall
    /\ alive = FALSE
    /\ faults_left = 0
    /\ last_write = NoWrite
    /\ bpc = "closed"
    /\ batch_kind = ""
    /\ notes_data = <<>>
    /\ item_index = 0
    /\ _cancel_event = FALSE
    /\ _pause_event = FALSE
    /\ elapsed = 0
    /\ attempted = <<>>
    /\ log = <<>>
    /\ last_delay = NoDelay
    /\ cancel_slept = 0
    /\ resumed = ""
    /\ NoMore

BatchOnly == UNCHANGED <<kmvars, runvars, genvars, morevars>>

\* the steps of the loops, which the running thread takes by itself
BatchStep ==
    \/ loop_head
    \/ pause_wait
    \/ begin_item
    \/ \E outcome \in ItemOutcomes : _process_single(outcome)
    \/ rate_limit_sleep
    \/ _cleanup_batch
    \/ translator_loop_head
    \/ \E outcome \in ItemOutcomes : translate_batch_done(outcome)
    \/ interruptible_sleep_check
    \/ interruptible_sleep_slice

BatchNext ==
    \/ open_dialog /\ BatchOnly
    \/ \E choice \in {"resume", "clear", "keep"} : answer_resume(choice) /\ BatchOnly
    \/ \E k \in DialogKinds, ids \in NoteLists : start_generation(k, ids) /\ BatchOnly
    \/ \E ids \in NoteLists : start_translation(ids) /\ BatchOnly
    \/ loop_head /\ BatchOnly
    \/ pause_wait /\ BatchOnly
    \/ begin_item /\ BatchOnly
    \/ \E outcome \in ItemOutcomes : _process_single(outcome) /\ BatchOnly
    \/ rate_limit_sleep /\ BatchOnly
    \/ _cleanup_batch /\ BatchOnly
    \/ translator_loop_head /\ BatchOnly
    \/ \E outcome \in ItemOutcomes : translate_batch_done(outcome) /\ BatchOnly
    \/ interruptible_sleep_check /\ BatchOnly
    \/ interruptible_sleep_slice /\ BatchOnly
    \/ _stop_operation /\ BatchOnly
    \/ _toggle_pause /\ BatchOnly
    \/ batch_over /\ BatchOnly
    \/ close_or_crash /\ BatchOnly

SpecBatch == BatchInit /\ [][BatchNext]_vars

\* the thread that runs a loop keeps running
SpecBatchFair == SpecBatch /\ WF_vars(BatchStep /\ BatchOnly)

\* C10: mark_failure on an existing run stores the message for the item,
\* sets its retry count to the previous count plus 1 (1 the first time),
\* and leaves the pending list, every other failure entry and the total as
\* they were.
C10_MarkFailureFrame ==
    [][\A d \in DeckIds, n \in NoteIds :
         (last_call'.op = "mark_failure" /\ last_call'.deck = d
             /\ last_call'.note = n) =>
           LET old == _state[StrOf[d]]
               new == _state'[StrOf[d]]
               e == CHOOSE e \in Range(new.failed) : e.nid = StrOf[n]
           IN /\ StrOf[d] \in DOMAIN _state
              /\ DOMAIN _state' = DOMAIN _state
              /\ new.pending = old.pending
              /\ new.total = old.total
              /\ StrOf[n] \in FailedKeys(new.failed)
              /\ e.message = last_call'.message
              /\ e.count = FailedCount(old.failed, StrOf[n]) + 1
              /\ (StrOf[n] \notin FailedKeys(old.failed) => e.count = 1)
              /\ \A x \in Range(old.failed) :
                    x.nid # StrOf[n] => x \in Range(new.failed)
              /\ FailedKeys(new.failed) = FailedKeys(old.failed) \cup {StrOf[n]}]_vars

\* C10 happens: an item that mark_success had removed from pending failed
\* twice since and is still not pending
C10_Witness ==
    /\ last_call.op = "mark_failure"
    /\ StrOf[last_call.deck] \in DOMAIN _state
    /\ LET the_run == _state[StrOf[last_call.deck]] IN
       /\ last_call.note \notin Range(the_run.pending)
       /\ the_run.total = Cardinality(NoteIds)
       /\ FailedCount(the_run.failed, StrOf[last_call.note]) = 2

\* C11: mark_success on an existing run removes the item from pending if
\* present, deletes its failure detail, keeps every other pending item and
\* every other failure detail in order, and keeps the total; a second call
\* for the same item changes neither pending nor the failure map.
C11_MarkSuccess ==
    [][\A d \in DeckIds, n \in NoteIds :
         (last_call'.op = "mark_success" /\ last_call'.deck = d
             /\ last_call'.note = n) =>
           LET old == _state[StrOf[d]]
               new == _state'[StrOf[d]]
               NotN(x) == x # n
               NotNid(e) == e.nid # StrOf[n]
           IN /\ StrOf[d] \in DOMAIN _state
              /\ DOMAIN _state' = DOMAIN _state
              /\ n \notin Range(new.pending)
              /\ new.pending = SelectSeq(old.pending, NotN)
              /\ StrOf[n] \notin FailedKeys(new.failed)
              /\ new.failed = SelectSeq(old.failed, NotNid)
              /\ new.total = old.total
              /\ (last_call = last_call' =>
                    /\ new.pending = old.pending
                    /\ new.failed = old.failed)]_vars

\* C11 happens: of two pending items one was marked successful; the other
\* one, which has failed twice, is still pending with its failure detail
C11_Witness ==
    /\ last_call.op = "mark_success"
    /\ StrOf[last_call.deck] \in DOMAIN _state
    /\ LET the_run == _state[StrOf[last_call.deck]] IN
       /\ the_run.total = 2
       /\ Len(the_run.pending) = 1
       /\ last_call.note \notin Range(the_run.pending)
       /\ Len(the_run.failed) = 1
       /\ the_run.failed[1].nid = StrOf[the_run.pending[1]]
       /\ the_run.failed[1].count = 2

\* the place of the first occurrence of x in ids
FirstAt(ids, x) == CHOOSE i \in 1..Len(ids) :
                       ids[i] = x /\ \A j \in 1..(i - 1) : ids[j] # x

\* C12: start_run sets pending to the ids without later duplicates in the
\* order of their first occurrences, total to the number of distinct ids,
\* the failure map to empty, and so replaces an earlier run of the deck.
C12_StartRun ==
    [][\A d \in DeckIds :
         (last_call'.op = "start_run" /\ last_call'.deck = d) =>
           LET ids == last_call'.ids
               new == _state'[StrOf[d]]
           IN /\ StrOf[d] \in DOMAIN _state'
              /\ Range(new.pending) = Range(ids)
              /\ \A i, j \in 1..Len(new.pending) :
                    i < j => FirstAt(ids, new.pending[i]) < FirstAt(ids, new.pending[j])
              /\ new.total = Cardinality(Range(ids))
              /\ Len(new.pending) = new.total
              /\ new.failed = <<>>
              /\ \A k \in DOMAIN _state' \ {StrOf[d]} :
                    k \in DOMAIN _state /\ _state'[k] = _state[k]]_vars

\* C12 happens: ids 2, 1, 2 were handed in and the run holds 2, 1
C12_Witness ==
    /\ last_call.op = "start_run"
    /\ last_call.ids = <<2, 1, 2>>
    /\ _state[StrOf[last_call.deck]].pending = <<2, 1>>
    /\ _state[StrOf[last_call.deck]].total = 2

\* the outcomes of a write after which the call returns with the primary
\* written
WrittenOutcomes == {"ok", "copy_open_oserror", "copy_oserror"}

\* C13: after a completed mutating operation whose write succeeded, a new
\* tracker over the same directory loads exactly the runs the tracker holds
\* (pending in order, failure details, total); a process that dies inside a
\* write leaves as primary the complete previous document or the complete
\* new one.
C13_Resumable ==
    /\ []((alive /\ last_write.outcome \in WrittenOutcomes) =>
            LET l == _load_state(primary, backup) IN
            /\ ~l.raised
            /\ l.data = _state
            /\ primary = json_dump(_state))
    /\ [][(faults_left' < faults_left /\ last_write'.outcome \in CrashOutcomes) =>
            /\ ~alive'
            /\ primary' \in {primary, json_dump(last_write'.doc)}]_vars

\* C13 happens: the process died while it wrote the temp file; the primary
\* is still the previous document, written by an earlier mark_failure
C13_Witness ==
    /\ ~alive
    /\ last_write.outcome = "crash_in_temp"
    /\ tmp \in Partials
    /\ primary.kind = "json_object"
    /\ primary.data # last_write.doc
    /\ "1" \in DOMAIN primary.data
    /\ primary.data["1"].failed # <<>>

\* a file that exists and parses to a JSON object
Good(file) == file.kind = "json_object"

\* C14: the constructor takes the primary when it exists and parses to a
\* JSON object, else the backup when it does (and rewrites the primary from
\* it when that write goes through), else starts with no runs; it never
\* raises, whatever the two files hold.
C14_LoadOrder ==
    [][(~alive /\ last_call'.op = "__init__") =>
         /\ ~last_call'.raised
         /\ alive'
         /\ Good(primary) => (_state' = primary.data /\ primary' = primary)
         /\ (~Good(primary) /\ Good(backup)) =>
               /\ _state' = backup.data
               /\ last_write'.outcome = "ok" => primary' = backup
         /\ (~Good(primary) /\ ~Good(backup)) => _state' = <<>>
         /\ backup' = backup]_vars

\* C14 fails: the primary holds bytes that are no UTF-8 text, the backup is
\* a good document, and the constructor raised
C14_Failure ==
    /\ ~alive
    /\ last_call.op = "__init__" /\ last_call.raised
    /\ primary.kind = "not_utf8"
    /\ Good(backup)

\* the tracker call that records how the work on a note ended
RecordedAs(note, outcome) ==
    IF outcome.ok
    THEN Call("mark_success", _current_deck_id, note, "", <<>>)
    ELSE Call("mark_failure", _current_deck_id, note, outcome.error, <<>>)

NotSucceeded(n) == ~\E i \in 1..Len(log) : log[i].note = n /\ log[i].outcome.ok

C16_Cleared ==
    /\ batch_kind \in DialogKinds
    /\ bpc = "done"
    /\ ~_cancel_event
    /\ Len(log) = 2
    /\ primary = json_dump(<<>>)

\* C17: when the dialog is opened over a run with pending items and the
\* user accepts the offer to resume, a sentence or image batch is started
\* over exactly the ids that are pending in that run.
C17_Resume ==
    [][(bpc = "ask" /\ bpc' # "closed" /\ resumed' # "declined") =>
          /\ bpc' = "check"
          /\ batch_kind' \in DialogKinds
          /\ notes_data' = _state[StrOf[pending_deck(_state)]].pending]_vars

\* C17 fails: the user has accepted the offer for a run that a sentence or
\* image batch left behind; the dialog has answered with a warning, no batch
\* was started and the run is still pending
C17_Failure ==
    /\ resumed = "Unknown operation type"
    /\ bpc = "idle"
    /\ batch_kind = ""
    /\ pending_deck(_state) = _current_deck_id
    /\ _state[StrOf[_current_deck_id]].operation = "deck"
    /\ primary = json_dump(_state)

\* the positions of a loop that has not ended
Running == {"check", "pause", "events", "item", "sleep", "cleanup", "delay",
            "slice"}

C18_InFlight ==
    /\ batch_kind = "translation"
    /\ bpc = "done"
    /\ _cancel_event
    /\ cancel_slept = 0
    /\ notes_data = <<1, 2>>
    /\ attempted = <<1>>
    /\ Len(log) = 1

\* C19: in every batch loop a pacing delay is performed only between two
\* items: the last delay that was started came after an item that was not
\* the last one of the list, and the cancel event was not set when it started.
C19_Pacing ==
    last_delay # NoDelay =>
        /\ last_delay.after < Len(notes_data)
        /\ ~last_delay.cancelled

\* C19 fails: the sentence loop has slept after the only item of its list
C19_Failure ==
    /\ batch_kind = "sentence"
    /\ notes_data = <<2>>
    /\ last_delay = [after |-> 1, cancelled |-> FALSE]
    /\ bpc = "done"

\* C19 fails in the image loop with the cancel event set: stop was pressed
\* before the first of two items, which was processed and slept after
C19_AfterCancel ==
    /\ batch_kind = "image"
    /\ notes_data = <<1, 2>>
    /\ last_delay = [after |-> 1, cancelled |-> TRUE]

\* C19 fails in the translation loop: its delay was slept to the end after
\* the last batch
C19_Translation ==
    /\ batch_kind = "translation"
    /\ last_delay.after = Len(notes_data)
    /\ ~_cancel_event
    /\ elapsed = MinBatchDelay
    /\ bpc = "done"

\* C20: the pacing delay and the pause wait are given up within one slice
\* of at most 0.5 s once the cancel event is set: no loop sleeps longer than
\* that with the event set.
C20_Slices ==
    cancel_slept <= Interval

\* C20 fails: the sentence loop has slept its two seconds in one piece with
\* the cancel event set
C20_Failure ==
    /\ batch_kind = "sentence"
    /\ _cancel_event
    /\ cancel_slept = SentenceDelay
    /\ last_delay.cancelled

\* the delay of the translation loop and the pause wait are given up within
\* a slice
C20_Interruptible ==
    (batch_kind = "translation" \/ ~last_delay.cancelled) =>
        cancel_slept <= Interval

\* the translation loop is stopped in the middle of its delay: one slice was
\* slept with the event set and the rest of the delay was given up
C20_Interrupted ==
    /\ batch_kind = "translation"
    /\ _cancel_event
    /\ cancel_slept = Interval
    /\ elapsed = Interval
    /\ bpc = "done"

\* the store starts empty and is filled and emptied by its callers
StoreInit ==
    /\ keys = <<>>
    /\ current_key_index = 0
    /\ stats = <<>>
    /\ total_rotations = 0
    /\ now = 0
    /\ ret = NoRet
    /\ run = 0
    /\ step = -1
    /\ NoClient
    /\ NoTracker
    /\ NoBatch
    /\ NoMore

\* the secrets and the reasons that the callers of the store pass: a quota
\* reason and another one
StoreInputs == {keyA, keyC, " " \o keyC \o " ", "short", ""}
StoreReasons == {"quota exceeded", "500 internal error"}

\* a step of the key manager and its counters
StoreOnly ==
    Untracked
      /\ UNCHANGED <<genvars, ptvars, batchvars, threadvars, filevars, entryvars>>

StoreNext ==
    \/ \E input \in StoreInputs :
          Len(keys) < MaxPool /\ add_key(input) /\ StoreOnly
    \/ \E index \in (-1)..Len(keys) : remove_key(index) /\ StoreOnly
    \/ clear_all_keys /\ StoreOnly
    \/ get_current_key /\ uncounted("get_current_key", 0) /\ StoreOnly
    \/ rotate_to_next_key /\ uncounted("rotate_to_next_key", 0) /\ StoreOnly
    \/ \E index \in (-1)..Len(keys) :
          force_set_current_key_returning(index)
             /\ uncounted("force_set_current_key", index) /\ StoreOnly
    \/ record_success_counted("translation", 1) /\ StoreOnly
    \/ \E reason \in StoreReasons : record_failure_counted(reason) /\ StoreOnly

SpecStore == StoreInit /\ [][StoreNext]_vars

(***************************************************************************)
(* The store's contracts, checked under SpecStore                          *)
(***************************************************************************)
\* the index is 0 for an empty list and a position of the list otherwise
ValidIndex(ks, idx) ==
    IF Len(ks) = 0 THEN idx = 0 ELSE 0 <= idx /\ idx < Len(ks)

\* the last call was op with an index outside the list it was handed
OutOfRange(op) ==
    /\ arg'.op = op
    /\ (arg'.n < 0 \/ arg'.n >= Len(keys))

\* C29: from an empty store, after any sequence of add_key, remove_key,
\* clear_all_keys, rotate_to_next_key, force_set_current_key,
\* get_current_key, record_success and record_failure the current index is
\* a position of the list (0 for the empty list), and remove_key and
\* force_set_current_key with an index out of range return failure and
\* leave the list, the index, the statistics and the rotation count as they
\* were.
C29_Index ==
    [][/\ ValidIndex(keys, current_key_index)
       /\ ValidIndex(keys', current_key_index')
       /\ (OutOfRange("remove_key") \/ OutOfRange("force_set_current_key")) =>
             /\ ~ret'.ok
             /\ UNCHANGED <<keys, current_key_index, stats, usage,
                            total_rotations>>]_vars

\* C29 happens: the last credential of a list was removed while the index
\* was on it or before it, and the index is on the new last one
C29_Witness ==
    /\ arg.op = "remove_key" /\ ret.ok
    /\ Len(keys) >= 1
    /\ arg.n = Len(keys)
    /\ current_key_index = Len(keys) - 1

\* a removal and a selection with an index out of range were refused
C29_Refused ==
    /\ arg.op \in {"remove_key", "force_set_current_key"}
    /\ ~ret.ok
    /\ Len(keys) >= 1
    /\ arg.n \in {-1, Len(keys)}

\* a store that its callers fill to capacity: each secret offered is one of
\* the numbered keys up to the first one not yet stored, or a secret outside
\* the format; credentials are removed from the end
CapacityInputs ==
    {NumberedInput(n) : n \in 1..Min(Len(keys) + 1, MAX_API_KEYS + 1)}
       \cup EdgeInputs

CapacityNext ==
    \/ \E input \in CapacityInputs : add_key(input) /\ StoreOnly
    \/ \E index \in {-1, Len(keys) - 1, Len(keys)} :
          remove_key(index) /\ StoreOnly
    \/ clear_all_keys /\ StoreOnly

SpecCapacity == StoreInit /\ [][CapacityNext]_vars

\* no credential is in the list twice
Distinct(ks) == \A i, j \in 1..Len(ks) : i # j => ks[i] # ks[j]

\* what add_key is to accept: the trimmed secret is not empty, starts with
\* the prefix, has a length in the range, is not in the list, and the list
\* is below the cap
Acceptable(ks, key) ==
    /\ key # ""
    /\ StartsWith(key, "AIza")
    /\ Len(key) \in API_KEY_MIN_LENGTH..API_KEY_MAX_LENGTH
    /\ key \notin Range(ks)
    /\ Len(ks) < MAX_API_KEYS

\* C27: add_key succeeds exactly when the trimmed secret is non-empty,
\* starts with the known prefix, has a length within 35..50, is not already
\* in the store and the store holds fewer than 15 credentials; then the
\* trimmed secret is appended, and otherwise the list, the current index and
\* the statistics stay as they were.  So, from an empty store, after any
\* sequence of add, remove and clear calls the credentials are pairwise
\* distinct and at most 15.
C27_AddKey ==
    [][/\ Distinct(keys') /\ Len(keys') <= MAX_API_KEYS
       /\ arg'.op = "add_key" =>
             /\ ret'.ok <=> Acceptable(keys, Strip(arg'.text))
             /\ ret'.ok => keys' = Append(keys, Strip(arg'.text))
             /\ ~ret'.ok => UNCHANGED <<keys, current_key_index, stats, usage>>
      ]_vars

\* C27 happens: a well-formed secret that is not in the store is refused by
\* a store of fifteen
C27_Witness ==
    /\ arg.op = "add_key" /\ ~ret.ok
    /\ Len(keys) = MAX_API_KEYS
    /\ arg.text = NumberedKey(MAX_API_KEYS + 1)

\* secrets at both ends of the length range are accepted, and one with
\* blanks around it is stored without them
C27_Edges ==
    /\ Len(keys) = 3
    /\ keys = <<KeyOfLength(API_KEY_MIN_LENGTH), KeyOfLength(API_KEY_MAX_LENGTH),
                NumberedKey(3)>>
    /\ arg = Arg("add_key", NumberedInput(3), 0) /\ ret.ok

\* the lists of the store with all its operations are without repetition
\* as well (credentials removed from any position)
C27_Distinct == Distinct(keys) /\ Len(keys) <= MAX_API_KEYS

\* the credential that the last add_key appended
Added == Strip(arg.text)

\* C28: right after a successful add_key the added credential has a
\* statistics record whose counters are all zero, that is active and not
\* cooling down, so the credential is usable, whatever add, remove, clear
\* and record calls came before.
C28_FreshStats ==
    (arg.op = "add_key" /\ ret.ok) =>
        /\ KeyIdOf[Added] \in DOMAIN stats
        /\ stats[KeyIdOf[Added]] = APIKeyStats
        /\ usage[KeyIdOf[Added]] = NoCounters
        /\ _is_key_usable(stats, KeyIdOf[Added], now)

\* C28 fails: a credential was added whose record counts a failed request
\* and holds a cooldown, so the credential just added is not usable
C28_Failure ==
    /\ arg.op = "add_key" /\ ret.ok
    /\ usage[KeyIdOf[Added]].failed_requests > 0
    /\ stats[KeyIdOf[Added]].exhausted_at # NoTime
    /\ ~_is_key_usable(stats, KeyIdOf[Added], now)

\* a credential whose masked identifier the store has not seen before gets
\* a fresh record
C28_FirstAdd ==
    [][(arg'.op = "add_key" /\ ret'.ok
          /\ KeyIdOf[Strip(arg'.text)] \notin DOMAIN stats) =>
             /\ stats'[KeyIdOf[Strip(arg'.text)]] = APIKeyStats
             /\ usage'[KeyIdOf[Strip(arg'.text)]] = NoCounters]_vars

(***************************************************************************)
(* The counters' contracts, checked under SpecCount                        *)
(***************************************************************************)
\* a loaded pool whose statistics file is still empty: one credential, two
\* with different masked identifiers, two with the same one
CountPools == {<<keyC>>, <<keyA, keyC>>, <<keyA, keyB>>}

CountInit ==
    /\ keys \in CountPools
    /\ current_key_index = 0
    /\ stats = <<>>
    /\ total_rotations = 0
    /\ now = 0
    /\ ret = NoRet
    /\ run = 0
    /\ step = -1
    /\ NoClient
    /\ NoTracker
    /\ NoBatch
    /\ NoMore

CountNext ==
    \/ \E operation \in Operations, count \in Counts :
          record_success_counted(operation, count) /\ StoreOnly
    \/ \E reason \in StoreReasons : record_failure_counted(reason) /\ StoreOnly
    \/ \E index \in 0..(Len(keys) - 1) :
          force_set_current_key(index)
             /\ uncounted("force_set_current_key", index) /\ StoreOnly
    \/ get_current_key /\ uncounted("get_current_key", 0) /\ StoreOnly

SpecCount == CountInit /\ [][CountNext]_vars

\* the statistics record of a credential, a fresh one when it has none yet
StatsOf(st, key) ==
    IF KeyIdOf[key] \in DOMAIN st THEN st[KeyIdOf[key]] ELSE APIKeyStats

CountersOf(u, key) ==
    IF KeyIdOf[key] \in DOMAIN u THEN u[KeyIdOf[key]] ELSE NoCounters

\* the counter of an operation kind
KindCounter(c, operation) ==
    IF operation = "translation" THEN c.total_words_processed
    ELSE IF operation = "image" THEN c.total_images_generated
    ELSE c.total_sentences_generated

\* the counters of c after one more success of count items of a kind
OneMoreSuccess(c, operation, count) ==
    [c EXCEPT !.total_requests = @ + 1,
              !.successful_requests = @ + 1,
              !.total_words_processed =
                  IF operation = "translation" THEN @ + count ELSE @,
              !.total_images_generated =
                  IF operation = "image" THEN @ + count ELSE @,
              !.total_sentences_generated =
                  IF operation = "sentence" THEN @ + count ELSE @]

\* a record_success step taken while the credential at the index is usable
SuccessOnUsable ==
    /\ arg'.op = "record_success"
    /\ _is_key_usable(stats, KeyIdOf[CurrentKey], now)

\* what record_success(kind, count) does to the current credential: one
\* more request and one more success, no consecutive failures, count more
\* of the kind, and the same index
CountedOnce ==
    /\ ret'.key = CurrentKey
    /\ current_key_index' = current_key_index
    /\ CountersOf(usage', CurrentKey) =
          OneMoreSuccess(CountersOf(usage, CurrentKey), arg'.text, arg'.n)
    /\ StatsOf(stats', CurrentKey).consecutive_failures = 0

\* C30: record_success(kind, count), called while the current credential is
\* usable, adds 1 to that credential's total_requests and
\* successful_requests, sets its consecutive-failure count to 0, adds count
\* to the counter of the kind, and changes neither the current index nor
\* the counters of any other credential.
C30_RecordSuccess ==
    [][SuccessOnUsable =>
          /\ CountedOnce
          /\ \A i \in 1..Len(keys) :
                keys[i] # CurrentKey =>
                   /\ CountersOf(usage', keys[i]) = CountersOf(usage, keys[i])
                   /\ StatsOf(stats', keys[i]).consecutive_failures
                         = StatsOf(stats, keys[i]).consecutive_failures]_vars

\* C30 fails: a success counted for the first credential shows in the
\* counters of the second one, which has had no request
C30_Failure ==
    /\ keys = <<keyA, keyB>>
    /\ current_key_index = 0
    /\ arg.op = "record_success" /\ ret.key = keyA
    /\ usage[KeyIdOf[keyA]].total_requests = 1
    /\ CountersOf(usage, keyB).total_requests = 1

\* the current credential is counted as the claim says, and among
\* credentials with different masked identifiers no other one is touched
C30_OwnRecord ==
    [][SuccessOnUsable =>
          /\ CountedOnce
          /\ \A i \in 1..Len(keys) :
                KeyIdOf[keys[i]] # KeyIdOf[CurrentKey] =>
                   /\ CountersOf(usage', keys[i]) = CountersOf(usage, keys[i])
                   /\ StatsOf(stats', keys[i]) = StatsOf(stats, keys[i])]_vars

\* two sentences were counted for the second credential of a pool after a
\* failure of its own, and the first credential's record is as it was
C30_Counted ==
    /\ keys = <<keyA, keyC>>
    /\ current_key_index = 1
    /\ arg = Arg("record_success", "sentence", 2)
    /\ usage[KeyIdOf[keyC]].total_sentences_generated = 2
    /\ usage[KeyIdOf[keyC]].failed_requests = 1
    /\ stats[KeyIdOf[keyC]].consecutive_failures = 0

(***************************************************************************)
(* The stored failure reason, checked under SpecReason                     *)
(***************************************************************************)
ReasonInit ==
    /\ keys \in {<<keyC>>, <<keyA, keyC>>}
    /\ current_key_index = 0
    /\ stats = <<>>
    /\ total_rotations = 0
    /\ now = 0
    /\ ret = NoRet
    /\ run = 0
    /\ step = -1
    /\ NoClient
    /\ NoTracker
    /\ NoBatch
    /\ NoMore

ReasonNext ==
    \/ \E reason \in SecretReasons : record_failure_counted(reason) /\ StoreOnly
    \/ record_success_counted("translation", 1) /\ StoreOnly
    \/ get_current_key /\ uncounted("get_current_key", 0) /\ StoreOnly

SpecReason == ReasonInit /\ [][ReasonNext]_vars

\* s holds something of the form of a credential secret: the prefix and at
\* least 30 key characters
HasKeyForm(s) ==
    \E i \in 1..Len(s) :
        At(s, i, "AIza") /\ RunLen(s, i + 4, KeyChars) >= KeyRunLeast

\* s holds the value of bearer token t, or the rest of it behind a marker
HoldsToken(s, t) ==
    \/ Contains(s, t)
    \/ \E k \in 2..Len(t) : Contains(s, "[REDACTED]" \o SubSeq(t, k, Len(t)))

\* the failure reasons that the statistics records hold
StoredReasons ==
    {usage[i].last_failure_reason : i \in DOMAIN usage} \ {NoReason}

\* C23: whatever reason text record_failure is handed, the last-failure
\* reason it stores holds nothing of the form of a credential secret (the
\* prefix and at least 30 key characters) and no bearer token value: each
\* of them has been replaced by a marker.
C23_Sanitized ==
    \A s \in StoredReasons :
        /\ ~HasKeyForm(s)
        /\ \A t \in BearerTokens : ~HoldsToken(s, t)

\* C23 fails: of a token in base64 the part after its first '+' is stored
C23_Failure ==
    /\ arg.op = "record_failure"
    /\ Contains(arg.text, "Bearer " \o TokenBase64)
    /\ \E s \in StoredReasons : Contains(s, "Bearer [REDACTED]+def/ghi==")

\* nothing of the form of a credential secret is stored, a stored reason
\* has at most 200 characters, and a token of letters, digits, '_', '.' and
\* '-' behind 'Bearer' is not stored either
C23_KeysRedacted ==
    \A s \in StoredReasons :
        /\ ~HasKeyForm(s)
        /\ Len(s) <= ReasonLimit
        /\ ~HoldsToken(s, TokenPlain)

\* a reason that quotes a stored credential was stored with the marker in
\* its place
C23_Redacted ==
    /\ arg.op = "record_failure" /\ ret.key = keyA
    /\ Contains(arg.text, keyA)
    /\ usage[KeyIdOf[keyA]].last_failure_reason
          = "API key not valid: [REDACTED_KEY] rejected"

\* a reason of more than 200 characters was cut after its key was replaced
C23_Cut ==
    \E s \in StoredReasons :
        Len(s) = ReasonLimit /\ StartsWith(s, LongText) /\ ~Contains(s, "]")

(***************************************************************************)
(* The key manager under two threads, checked under SpecThreads            *)
(***************************************************************************)
ThreadsInit ==
    /\ keys \in {<<keyC>>, <<keyA, keyC>>}
    /\ current_key_index = 0
    /\ stats = <<>>
    /\ total_rotations = 0
    /\ now = 0
    /\ ret = NoRet
    /\ run = 0
    /\ step = -1
    /\ NoClient
    /\ NoTracker
    /\ NoBatch
    /\ NoMore

\* a step of one thread in the key manager
ThreadsOnly ==
    Untracked /\ UNCHANGED <<genvars, ptvars, batchvars, filevars, entryvars>>

ThreadsNext ==
    \/ \E t \in Threads, operation \in {"translation", "sentence"} :
          enter_call(t, "record_success", operation, 1) /\ ThreadsOnly
    \/ \E t \in Threads, reason \in StoreReasons :
          enter_call(t, "record_failure", reason, 0) /\ ThreadsOnly
    \/ \E t \in Threads : store_total(t) /\ ThreadsOnly
    \/ \E t \in Threads : store_outcome(t) /\ ThreadsOnly
    \/ \E t \in Threads : store_kind(t) /\ ThreadsOnly
    \/ \E t \in Threads : store_consecutive(t) /\ ThreadsOnly

SpecThreads == ThreadsInit /\ [][ThreadsNext]_vars

\* no call is under way
Quiet == \A t \in Threads : tpc[t] = "idle"

\* C21: read-modify-write sequences on the shared credential state are
\* serialized: whatever the interleaving of the calls of two threads, no
\* update is lost; once the calls have returned, the record of a credential
\* counts every record_success and record_failure that returned for it in
\* total_requests and every record_success in successful_requests (two
\* concurrent record_success calls add exactly 2 to both).
C21_NoLostUpdate ==
    Quiet =>
        \A i \in DOMAIN returned :
            /\ usage[i].total_requests = returned[i].calls
            /\ usage[i].successful_requests = returned[i].successes
            /\ usage[i].failed_requests = returned[i].calls - returned[i].successes

\* C21 fails: two record_success calls have returned for a credential whose
\* record counts one request and one success
C21_Failure ==
    /\ Quiet
    /\ keys = <<keyC>>
    /\ KeyIdOf[keyC] \in DOMAIN returned
    /\ returned[KeyIdOf[keyC]] = [calls |-> 2, successes |-> 2]
    /\ usage[KeyIdOf[keyC]].total_requests = 1
    /\ usage[KeyIdOf[keyC]].successful_requests = 1

\* a call that runs from its first statement to its last while no other
\* call is under way counts once
C21_Alone ==
    (Quiet /\ \A i \in DOMAIN returned : returned[i].calls <= 1) =>
        \A i \in DOMAIN returned :
            /\ usage[i].total_requests = returned[i].calls
            /\ usage[i].successful_requests = returned[i].successes

(***************************************************************************)
(* The credential store and its files, with a process that can die         *)
(***************************************************************************)
KeysFileInit == StoreInit

KeysFileOnly ==
    Untracked /\ UNCHANGED <<genvars, ptvars, batchvars, threadvars, entryvars>>

KeysFileNext ==
    \/ \E input \in StoreInputs, outcome \in SaveOutcomes, part \in Partials :
          /\ Len(keys) < MaxPool
          /\ add_key(input)
          /\ saves(ret'.ok, ret'.ok, outcome, part)
          /\ KeysFileOnly
    \/ \E index \in (-1)..Len(keys), outcome \in SaveOutcomes, part \in Partials :
          /\ remove_key(index)
          /\ saves(ret'.ok, FALSE, outcome, part)
          /\ KeysFileOnly
    \/ \E outcome \in SaveOutcomes, part \in Partials :
          /\ clear_all_keys
          /\ saves(TRUE, FALSE, outcome, part)
          /\ KeysFileOnly
    \/ \E index \in 0..Len(keys), outcome \in SaveOutcomes, part \in Partials :
          /\ force_set_current_key_returning(index)
          /\ uncounted("force_set_current_key", index)
          /\ saves(ret'.ok, FALSE, outcome, part)
          /\ KeysFileOnly
    \/ quit /\ KeysFileOnly
    \/ restart /\ KeysFileOnly

SpecKeysFile == KeysFileInit /\ [][KeysFileNext]_vars

\* the last step made a new APIKeyManager over the files
Loaded == up /\ arg.op = "restart"

\* C22: the credentials document is written atomically: when the process
\* dies at any point of a save of the credential store, the store a later
\* load yields is the complete store saved before or the complete new one,
\* never an empty store nor a part of the list
C22_Atomic ==
    Loaded => Store(keys, current_key_index) \in {saved.old, saved.new}

\* a store of one credential was saved, the process died while it saved the
\* store with a second one, and the load yields a store of none
C22_Failure ==
    /\ Loaded
    /\ keys = <<>>
    /\ Len(saved.old.keys) = 1
    /\ Len(saved.new.keys) = 2

\* a load of a credentials document that was written to its end yields the
\* store saved before or the new one: the stored text of every credential is not the
\* credential, and is turned back into it
C22_Complete ==
    /\ (Loaded /\ keys_file.kind = "json_object"
          => /\ Store(keys, current_key_index) \in {saved.old, saved.new}
             /\ \A i \in 1..Len(keys) : keys_file.data.keys[i] # keys[i])
    /\ (Loaded /\ keys_file.kind # "json_object" => keys = <<>>)

\* a store of two credentials was loaded from its document
C22_Reloaded == Loaded /\ Len(keys) = 2 /\ keys_file.kind = "json_object"

(***************************************************************************)
(* The dialog's sentence and image batches over one deck, with item        *)
(* errors that quote a credential                                          *)
(***************************************************************************)
\* the dialog open over a store of one credential, no batch run yet
DialogInit ==
    /\ keys = <<keyA>>
    /\ current_key_index = 0
    /\ stats = <<>>
    /\ total_rotations = 0
    /\ now = 0
    /\ ret = NoRet
    /\ run = 0
    /\ step = -1
    /\ NoClient
    /\ NoTracker
    /\ NoBatch
    /\ NoMore

\* how the work on one item ends here: as in ItemOutcomes, or with an
\* exception whose text quotes the credential the call was made with
SecretOutcomes ==
    ItemOutcomes \cup
        {[ok |-> FALSE, error |-> "API key not valid: " \o keyA \o " rejected"]}

DialogNext ==
    \/ \E k \in DialogKinds, ids \in NoteLists : start_generation(k, ids) /\ BatchOnly
    \/ loop_head /\ BatchOnly
    \/ begin_item /\ BatchOnly
    \/ \E outcome \in SecretOutcomes : _process_single(outcome) /\ BatchOnly
    \/ rate_limit_sleep /\ BatchOnly
    \/ _cleanup_batch /\ BatchOnly
    \/ _stop_operation /\ BatchOnly
    \/ batch_over /\ BatchOnly

SpecDialog == DialogInit /\ [][DialogNext]_vars

\* the failure messages of a progress document
MessagesOf(doc) ==
    UNION {{doc[d].failed[i].message : i \in 1..Len(doc[d].failed)} :
             d \in DOMAIN doc}

\* the failure messages that the tracker holds and that its files hold
PersistedMessages ==
    MessagesOf(_state)
        \cup (IF primary.kind = "json_object" THEN MessagesOf(primary.data) ELSE {})
        \cup (IF backup.kind = "json_object" THEN MessagesOf(backup.data) ELSE {})

\* C24: no failure reason that the batch flow persists holds credential
\* secret material: whatever error text a failing item raises, the message
\* that mark_failure writes into the progress document has no credential
\* secret as a substring.
C24_NoSecretPersisted ==
    \A m \in PersistedMessages :
        /\ \A k \in Range(keys) : ~Contains(m, k)
        /\ ~HasKeyForm(m)

\* an item failed with a text that quotes the credential, and the progress
\* document on disk holds the credential in the item's failure message
C24_Failure ==
    /\ last_call.op = "mark_failure"
    /\ Contains(last_call.message, keyA)
    /\ primary.kind = "json_object"
    /\ \E m \in MessagesOf(primary.data) : Contains(m, keyA)

\* the progress document holds the text of the exception as it was raised
C24_AsRaised ==
    (bpc = "sleep" /\ ~log[Len(log)].outcome.ok)
        => /\ last_call.message = log[Len(log)].outcome.error
           /\ last_call.message \in MessagesOf(primary.data)

\* ProgressStateManager.get_failed_details: the entry of every failed note
get_failed_details(deck_id) ==
    LET key == StrOf[deck_id] IN
    IF key \notin DOMAIN _state THEN <<>>
    ELSE [n \in {IntOf(e.nid) : e \in Range(_state[key].failed)} |->
            CHOOSE e \in Range(_state[key].failed) : IntOf(e.nid) = n]

\* the items of the batch that failed, by their place in the log
Failures == {i \in 1..Len(log) : ~log[i].outcome.ok}

\* success and failure as _process_sentence_notes / _process_image_notes
\* return them to _on_finished
Tally ==
    [success |-> Cardinality({i \in 1..Len(log) : log[i].outcome.ok}),
     failure |-> Cardinality(Failures)]

\* the failure reason of every item that failed in the batch can be had
\* from the tracker
Retained ==
    \A i \in Failures :
        /\ log[i].note \in DOMAIN get_failed_details(_current_deck_id)
        /\ get_failed_details(_current_deck_id)[log[i].note].message
              = log[i].outcome.error

\* C25: after a batch has ended, the failure reason of every item that
\* failed in it (and was not marked successful later) can still be had per
\* item from the tracker, and the tally reported at the end satisfies
\* succeeded + failed = number of items attempted.
C25_Retained ==
    bpc = "done"
        => /\ Retained
           /\ Tally.success + Tally.failure = Len(attempted)

\* a batch that was not cancelled has ended, an item of it failed, and the
\* tracker has no failure detail for the deck
C25_Failure ==
    /\ bpc = "done"
    /\ ~_cancel_event
    /\ Failures # {}
    /\ get_failed_details(_current_deck_id) = <<>>

\* the tally of every batch that has ended adds up, and a batch that was
\* cancelled keeps its failure reasons
C25_Tally ==
    bpc = "done"
        => /\ Tally.success + Tally.failure = Len(attempted)
           /\ (_cancel_event => Retained)

\* a cancelled batch has ended with a failed item and a successful one
C25_Cancelled ==
    /\ bpc = "done"
    /\ _cancel_event
    /\ Tally.success = 1
    /\ Tally.failure = 1

\* C26: batches of different kinds are kept in independent records: a step
\* of a sentence batch on a deck (its start, an update, its cancellation,
\* its clearing) never changes the pending list or the failure details of
\* the image batch recorded for the same deck, and the other way round.
C26_Independent ==
    [][(/\ batch_kind \in DialogKinds
        /\ batch_kind' \in DialogKinds \ {batch_kind}
        /\ StrOf[_current_deck_id] \in DOMAIN _state)
          => /\ StrOf[_current_deck_id] \in DOMAIN _state'
             /\ _state'[StrOf[_current_deck_id]].pending
                   = _state[StrOf[_current_deck_id]].pending
             /\ _state'[StrOf[_current_deck_id]].failed
                   = _state[StrOf[_current_deck_id]].failed]_vars

\* an image batch on the deck was cancelled and has left a pending item and
\* a failure detail in the tracker, and a sentence batch can be started
C26_Failure ==
    /\ bpc = "idle"
    /\ batch_kind = "image"
    /\ StrOf[_current_deck_id] \in DOMAIN _state
    /\ _state[StrOf[_current_deck_id]].pending # <<>>
    /\ _state[StrOf[_current_deck_id]].failed # <<>>

(***************************************************************************)
(* The persistence round trip, checked under SpecKeysFile                  *)
(***************************************************************************)
\* non-empty secrets: the credentials a store of the model can hold and the
\* texts of test_encrypt_decrypt_roundtrip
RoundTripSecrets ==
    DOMAIN Encrypted
        \cup {"simple", "with spaces and special chars!@#$%", "a", "ab", "   "}

\* _simple_decrypt(_simple_encrypt(s, key), key) = s for each of them, and
\* the obfuscated form is another text than the secret
RoundTrips ==
    \A s \in RoundTripSecrets :
        /\ _simple_encrypt(s, EncryptionKey) # s
        /\ _simple_decrypt(_simple_encrypt(s, EncryptionKey), EncryptionKey) = s

\* C31: the persistence round trip of the credential store: de-obfuscating
\* the obfuscated form of a non-empty secret with the same derived key gives
\* the secret, and a save of the store followed by a load with the same key
\* gives the same ordered credential list and the same current index.
C31_RoundTrip ==
    /\ RoundTrips
    /\ (Loaded /\ saved.done) => Store(keys, current_key_index) = saved.new

\* a store of two credentials with the second one current was saved and
\* loaded, and the document holds other texts than the credentials
C31_Witness ==
    /\ Loaded
    /\ saved.done
    /\ Len(keys) = 2
    /\ current_key_index = 1
    /\ keys_file.kind = "json_object"
    /\ \A i \in 1..2 : keys_file.data.keys[i] # keys[i]

(***************************************************************************)
(* classify_error and should_rotate_key over error texts                   *)
(***************************************************************************)
ClassifyInit == StoreInit

\* classify_error(error): the error type of the returned pair
classify_error_call(error) ==
    /\ ret' = Ret("classify_error", FALSE, ErrorTypeOf[error], NoKey, FALSE, {})
    /\ arg' = Arg("classify_error", error, 0)
    /\ UNCHANGED <<keys, current_key_index, stats, usage, total_rotations, now>>

\* should_rotate_key(error)
should_rotate_key_call(error) ==
    /\ ret' = Ret("should_rotate_key", should_rotate_key(error), NoVal, NoKey,
                  FALSE, {})
    /\ arg' = Arg("should_rotate_key", error, 0)
    /\ UNCHANGED <<keys, current_key_index, stats, usage, total_rotations, now>>

ClassifyNext ==
    \/ \E error \in ClassifyTexts : classify_error_call(error) /\ StoreOnly
    \/ \E error \in ClassifyTexts : should_rotate_key_call(error) /\ StoreOnly

SpecClassify == ClassifyInit /\ [][ClassifyNext]_vars

\* the kinds in the order of their tests, each with its phrases
Precedence ==
    <<[kind |-> "quota_exceeded", phrases |-> {"quota", "resource exhausted"}],
      [kind |-> "rate_limit", phrases |-> {"429", "rate limit"}],
      [kind |-> "invalid_key",
       phrases |-> {"401", "403", "invalid api key", "api key not valid"}],
      [kind |-> "network",
       phrases |-> {"connection", "network", "refused", "unreachable"}],
      [kind |-> "timeout", phrases |-> {"timeout"}],
      [kind |-> "content_filter",
       phrases |-> {"safety", "blocked", "content filter", "harm"}],
      [kind |-> "invalid_response", phrases |-> {"json", "parse", "decode", "format"}]>>

\* the kind of the first entry of Precedence with a phrase in the lower-cased
\* text, "unknown" when there is none
FirstKind(text) ==
    LET hits == {i \in 1..Len(Precedence) :
                    \E x \in Precedence[i].phrases : Contains(Lower(text), x)}
    IN IF hits = {} THEN "unknown"
       ELSE Precedence[CHOOSE i \in hits : \A j \in hits : i <= j].kind

\* FirstKind, computed once
ExpectedKind == [e \in ClassifyTexts |-> FirstKind(e)]

\* C32: classify_error is a total function of the lower-cased error text
\* with a fixed precedence: quota and rate-limit phrases first (quota
\* exceeded when "quota" or "resource exhausted" occurs, rate limit
\* otherwise), then invalid credential, network, timeout, content filter,
\* malformed response, and unknown when nothing matches; should_rotate_key
\* is true exactly for rate limit, quota exceeded and invalid credential.
C32_Classify ==
    /\ (ret.op = "classify_error"
          => /\ ret.val = ExpectedKind[arg.text]
             /\ ret.val = classify_error(Lower(arg.text)))
    /\ (ret.op = "should_rotate_key"
          => (ret.ok <=> ExpectedKind[arg.text]
                            \in {"rate_limit", "quota_exceeded", "invalid_key"}))

\* a text with a network phrase before a timeout phrase was classified as
\* a network error
C32_Witness ==
    /\ ret.op = "classify_error"
    /\ arg.text = "Connection: Timeout"
    /\ ret.val = "network"

\* every kind is the kind of some text, and should_rotate_key has answered
\* yes and no
C32_Kinds ==
    /\ {ExpectedKind[e] : e \in ClassifyTexts}
          = {Precedence[i].kind : i \in 1..Len(Precedence)} \cup {"unknown"}
    /\ ErrorTypeOf["403: quota"] = "quota_exceeded"
    /\ ErrorTypeOf["429: API key not valid"] = "rate_limit"
    /\ ErrorTypeOf["rate: boom"] = "unknown"

(***************************************************************************)
(* The credential get_current_key hands out and the current index,         *)
(* checked under Spec                                                      *)
(***************************************************************************)
\* C36: on a pool that is not empty the credential get_current_key returns
\* is the one at current_key_index after the call, in every reachable
\* state, also when every credential is unusable; so record_success and
\* record_failure always update the statistics of the credential at the
\* current index.
C36_ReturnsCurrent ==
    (ret.op = "get_current_key" /\ Len(keys) > 0) => ret.key = CurrentKey

\* two credentials with different masked ids are both cooling down, the
\* second one is current, and get_current_key has returned the first
C36_Failure ==
    /\ ret.op = "get_current_key"
    /\ Len(keys) = 2
    /\ KeyIdOf[keys[1]] # KeyIdOf[keys[2]]
    /\ CoolingDown(stats, keys[1], now)
    /\ CoolingDown(stats, keys[2], now)
    /\ current_key_index = 1
    /\ ret.key = keys[1]

\* whenever the returned credential is usable it is the one at the index
C36_UsableIsCurrent ==
    (ret.op = "get_current_key" /\ Len(keys) > 0
        /\ Usable(stats, ret.key, now)) => ret.key = CurrentKey

(***************************************************************************)
(* record_failure over the failure texts of the callers                    *)
(***************************************************************************)
BlameInit == ReasonInit

\* the reasons recorded: two transport errors as raised, a rate limit, a
\* response with a field missing, and two terminal errors of the entry points
BlameReasons ==
    {"Connection refused", "Request timeout", "429 rate limit exceeded",
     SentenceParseError,
     sentence_error(format_error_message("Connection refused", "generate text")),
     translation_error(format_error_message("Request timeout", "generate text"))}

BlameNext ==
    \/ \E reason \in BlameReasons : record_failure_counted(reason) /\ StoreOnly
    \/ get_current_key /\ uncounted("get_current_key", 0) /\ StoreOnly

SpecBlame == BlameInit /\ [][BlameNext]_vars

\* the kinds for which a credential is to be put into cooldown
CooldownKinds == {"rate_limit", "quota_exceeded"}

\* the step is a record_failure that has charged a credential, and its
\* exhausted timestamp is as before the call, or unset
LeavesExhausted ==
    StatsOf(stats', ret'.key).exhausted_at
        \in {NoTime, StatsOf(stats, ret'.key).exhausted_at}

\* C34: record_failure puts the current credential into cooldown only for
\* quota and rate-limit failures as classify_error sees them: for every
\* reason text that classify_error labels neither rate limit nor quota
\* exceeded (a network, timeout or malformed-response error, the wrapped
\* terminal error of the gateway included) record_failure leaves the
\* exhausted timestamp of the credential unset.
C34_OnlyQuotaCools ==
    [][(/\ arg'.op = "record_failure"
        /\ ret'.key # NoKey
        /\ ErrorTypeOf[arg'.text] \notin CooldownKinds)
          => LeavesExhausted]_vars

\* the terminal error of a sentence generation that failed on a refused
\* connection was recorded, classify_error calls it a network error, and
\* the credential, which had no failure before, is cooling down
C34_Failure ==
    /\ arg.op = "record_failure"
    /\ arg.text = sentence_error(format_error_message("Connection refused",
                                                      "generate text"))
    /\ ErrorTypeOf[arg.text] = "network"
    /\ ret.key # NoKey
    /\ usage[KeyIdOf[ret.key]].total_requests = 1
    /\ CoolingDown(stats, ret.key, now)

\* a reason in which none of the words record_failure looks for occurs
\* starts no cooldown, and a reason of the two kinds always starts one
C34_ByPattern ==
    [][(arg'.op = "record_failure" /\ ret'.key # NoKey)
          => /\ ~is_quota_error(arg'.text) => LeavesExhausted
             /\ ErrorTypeOf[arg'.text] \in CooldownKinds
                   => StatsOf(stats', ret'.key).exhausted_at = now]_vars

\* a timeout was recorded against a credential, which is not cooling down
C34_Spared ==
    /\ arg.op = "record_failure"
    /\ arg.text = "Request timeout"
    /\ ret.key # NoKey
    /\ ~CoolingDown(stats, ret.key, now)

(***************************************************************************)
(* Statistics per credential                                               *)
(***************************************************************************)
\* the credentials of the store other than the one a call has charged
Others(charged) == {keys[i] : i \in 1..Len(keys)} \ {charged}

\* the step leaves the counters, the record and the usability of key as
\* they were
Untouched(key) ==
    /\ CountersOf(usage', key) = CountersOf(usage, key)
    /\ StatsOf(stats', key) = StatsOf(stats, key)
    /\ Usable(stats', key, now) = Usable(stats, key, now)

\* C35: statistics are isolated per credential: recording a failure against
\* one credential of the store, a quota failure that starts its cooldown
\* included, changes neither the counters nor the usability of any other
\* credential of the store, also when the masked forms of the two are equal.
C35_Isolated ==
    [][(arg'.op = "record_failure" /\ ret'.key # NoKey)
          => \A other \in Others(ret'.key) : Untouched(other)]_vars

\* a quota failure was recorded against the first of two credentials with
\* equal masked forms, and the second one, which received no call, has a
\* failed request and is cooling down
C35_Failure ==
    /\ keys = <<keyA, keyB>>
    /\ arg.op = "record_failure"
    /\ arg.text = "quota exceeded"
    /\ ret.key = keyA
    /\ KeyIdOf[keyA] = KeyIdOf[keyB]
    /\ CountersOf(usage, keyB).failed_requests = 1
    /\ CountersOf(usage, keyB).total_requests = 1
    /\ ~Usable(stats, keyB, now)

\* between credentials with different masked forms a recorded failure
\* stays with the credential charged
C35_DistinctIds ==
    [][(arg'.op = "record_failure" /\ ret'.key # NoKey)
          => \A other \in Others(ret'.key) :
                KeyIdOf[other] # KeyIdOf[ret'.key] => Untouched(other)]_vars

\* a quota failure was recorded against the first of two credentials with
\* different masked forms, and the second has no request and is usable
C35_Kept ==
    /\ keys = <<keyA, keyC>>
    /\ arg.op = "record_failure"
    /\ arg.text = "quota exceeded"
    /\ ret.key = keyA
    /\ CountersOf(usage, keyC).total_requests = 0
    /\ CoolingDown(stats, keyA, now)
    /\ Usable(stats, keyC, now)

(***************************************************************************)
(* remove_key and the current credential                                   *)
(***************************************************************************)
\* three credentials with three masked forms
RemoveInputs == {keyA, keyC, NumberedKey(1)}

RemoveNext ==
    \/ \E input \in RemoveInputs :
          Len(keys) < MaxPool /\ add_key(input) /\ StoreOnly
    \/ \E index \in (-1)..Len(keys) : remove_key(index) /\ StoreOnly
    \/ \E index \in 0..(Len(keys) - 1) :
          force_set_current_key_returning(index)
             /\ uncounted("force_set_current_key", index) /\ StoreOnly

SpecRemove == StoreInit /\ [][RemoveNext]_vars

\* the step is a remove_key that removed a credential other than the one
\* at the current index
RemovedOther ==
    /\ arg'.op = "remove_key"
    /\ ret'.ok
    /\ arg'.n # current_key_index

\* the credential at the current index is the same before and after
SameCurrent == keys'[current_key_index' + 1] = keys[current_key_index + 1]

\* C38: remove_key(i) with i different from the current index leaves the
\* identity of the current credential unchanged: the credential that
\* current_key_index designated before the call is the one it designates
\* after the call, for every pool size and every position of i.
C38_CurrentKept == [][RemovedOther => SameCurrent]_vars

\* the first of three credentials was removed while the index was on the
\* second: the index is still 1 and designates what was the third
C38_Failure ==
    /\ arg.op = "remove_key" /\ ret.ok /\ arg.n = 0
    /\ ret.val = "API key removed. (" \o _get_key_id(keyA) \o ")"
    /\ keys = <<keyC, NumberedKey(1)>>
    /\ current_key_index = 1

\* a removal behind the current index leaves the current credential, and a
\* removal before it leaves the number of the index unless the list has
\* become too short for it
C38_Behind ==
    [][RemovedOther =>
          /\ arg'.n > current_key_index => SameCurrent
          /\ current_key_index < Len(keys')
                => current_key_index' = current_key_index]_vars

\* the third credential was removed while the index was on the second
C38_Kept ==
    /\ arg.op = "remove_key" /\ ret.ok /\ arg.n = 2
    /\ Len(keys) = 2
    /\ current_key_index = 1

(***************************************************************************)
(* The pending list of a run                                               *)
(***************************************************************************)
\* the notes the collection still has, as the caller of clear_missing_notes
\* finds them
ExistingSets == {{}, {1}, {1, 2}}

clear_missing_notes(deck_id, existing_note_ids) ==
    LET key == StrOf[deck_id]
        Exists(nid) == nid \in existing_note_ids
        Known(e) == IntOf(e.nid) \in existing_note_ids
    IN IF key \notin DOMAIN _state
       THEN NotSaved
       ELSE _save_state([_state EXCEPT
                            ![key].pending = Filter(@, Exists),
                            ![key].failed = Filter(@, Known)],
                        NoCall)

PendingNext ==
    \/ \E d \in RunDecks, ids \in IdLists :
          start_run(d, ids) /\ TrackerOnly
    \/ \E d \in DeckIds, ids \in IdLists :
          update_pending(d, ids) /\ TrackerOnly
    \/ \E d \in DeckIds, n \in NoteIds :
          mark_success(d, n) /\ TrackerOnly
    \/ \E d \in DeckIds, n \in NoteIds, m \in Messages :
          mark_failure(d, n, m) /\ TrackerOnly
    \/ \E d \in DeckIds :
          reset_failures_to_pending(d) /\ TrackerOnly
    \/ \E d \in DeckIds, existing \in ExistingSets :
          clear_missing_notes(d, existing) /\ TrackerOnly

SpecPending == TrackerInit /\ [][PendingNext]_vars

\* no id is in the list twice
NoDuplicate(list) == \A i, j \in 1..Len(list) : i # j => list[i] # list[j]

\* C39: in every state reachable through start_run, mark_success,
\* mark_failure, update_pending, reset_failures_to_pending and
\* clear_missing_notes, the pending list of a run contains no duplicate and
\* is a sub-list of the ids given to start_run, so that describe_run reports
\* pending_count <= total.
C39_PendingWithinTotal ==
    \A key \in DOMAIN _state :
       /\ NoDuplicate(_state[key].pending)
       /\ describe_run(_state[key]).pending_count
             <= describe_run(_state[key]).total

\* a run that was started with one note has two notes pending
C39_Failure ==
    /\ "1" \in DOMAIN _state
    /\ describe_run(_state["1"]).total = 1
    /\ describe_run(_state["1"]).pending_count = 2
    /\ NoDuplicate(_state["1"].pending)

\* the pending list of a run never holds an id twice, and no failure detail
\* is kept twice for a note
C39_NoDuplicates ==
    \A key \in DOMAIN _state :
       /\ NoDuplicate(_state[key].pending)
       /\ NoDuplicate([i \in 1..Len(_state[key].failed) |->
                          _state[key].failed[i].nid])

\* a run of two notes of which one is pending and the other has failed
C39_Running ==
    /\ "1" \in DOMAIN _state
    /\ _state["1"].total = 2
    /\ Len(_state["1"].pending) = 1
    /\ Len(_state["1"].failed) = 1
    /\ IntOf(_state["1"].failed[1].nid) \notin Range(_state["1"].pending)

(***************************************************************************)
(* The accounting of generation calls                                      *)
(***************************************************************************)
AccountInit ==
    /\ keys \in {<<keyC>>, <<keyA, keyC>>}
    /\ current_key_index = 0
    /\ stats = <<>>
    /\ total_rotations = 0
    /\ now = 0
    /\ ret = NoRet
    /\ run = 0
    /\ step = -1
    /\ NoClient
    /\ NoTracker
    /\ NoBatch
    /\ NoMore

\* a step of the gateway on its own
GatewayOnly ==
    UNCHANGED <<ptvars, batchvars, threadvars, filevars, entry, epc, eattempt,
                entry_result, _client>>

AccountNext ==
    \/ \E mr \in 1..MaxRetries : gateway_begin(mr) /\ GatewayOnly
    \/ gateway_try /\ GatewayOnly
    \/ \E resp \in Responses : gateway_end(resp) /\ GatewayOnly

SpecAccount == AccountInit /\ [][AccountNext]_vars

\* total_requests summed over the records of the ids
RECURSIVE SumRequests(_, _)
SumRequests(u, ids) ==
    IF ids = {} THEN 0
    ELSE LET id == CHOOSE x \in ids : TRUE
         IN u[id].total_requests + SumRequests(u, ids \ {id})

TotalRequests(u) == SumRequests(u, DOMAIN u)

\* the step is the return of an upstream call that generate_text has issued
CallReturns == pc = "call" /\ pc' # "call"

\* C37: each generation call is accounted exactly once: for every call
\* issued through generate_text, total_requests summed over all credentials
\* increases by exactly 1, whether the call succeeded, failed with a
\* rotating error kind or failed with a non-rotating one, and total_requests
\* = successful_requests + failed_requests holds for every record.
C37_OncePerCall ==
    [][/\ CallReturns => TotalRequests(usage') = TotalRequests(usage) + 1
       /\ \A id \in DOMAIN usage' :
             usage'[id].total_requests =
                usage'[id].successful_requests + usage'[id].failed_requests]_vars

\* the only credential of the pool has issued one call, which came back
\* with a rate-limit error, and its record shows two requests, both failed
C37_Failure ==
    /\ keys = <<keyC>>
    /\ invocations = 1
    /\ calls = 1
    /\ arg = Arg("generate_content_done", "429 rate limit exceeded", 0)
    /\ CountersOf(usage, keyC).total_requests = 2
    /\ CountersOf(usage, keyC).failed_requests = 2

\* a call that succeeded or failed with a non-rotating kind is accounted
\* once, a call that failed with a rotating kind once or twice, and twice
\* when no rotation followed; the counters of every record add up
C37_Accounted ==
    [][/\ CallReturns =>
             TotalRequests(usage') - TotalRequests(usage) \in
                IF arg'.text = "" THEN {1}
                ELSE IF ~should_rotate_key(arg'.text) THEN {1}
                ELSE IF ret'.ok THEN {1, 2}
                ELSE {2}
       /\ \A id \in DOMAIN usage' :
             usage'[id].total_requests =
                usage'[id].successful_requests + usage'[id].failed_requests]_vars

\* a call came back with a rate-limit error, the gateway rotated, and the
\* credential that issued it has one request, a failed one
C37_Rotated ==
    /\ keys = <<keyA, keyC>>
    /\ arg = Arg("generate_content_done", "429 rate limit exceeded", 0)
    /\ ret.ok
    /\ calls = 1
    /\ CountersOf(usage, keyA).total_requests = 1
    /\ CountersOf(usage, keyC).total_requests = 0

(***************************************************************************)
(* The entry points above the gateway: Translator._generate_translation    *)
(* and SentenceGenerator._generate_sentence                                *)
(***************************************************************************)
\* max_retries of the entry points
EntryRetries == 3

Entries == {"translation", "sentence"}

\* the terminal error of an entry point
entry_error(kind, error) ==
    IF kind = "translation" THEN translation_error(error)
    ELSE sentence_error(error)

\* what the parsing raises for a response in which a field is missing
parse_error(kind) ==
    IF kind = "translation" THEN TranslationParseError ELSE SentenceParseError

\* a step of an entry point and the gateway under it
EntryOnly == UNCHANGED <<ptvars, batchvars, threadvars, filevars, _client>>

\* the entry point is called: its loop starts and calls generate_text with
\* max_retries=1
entry_begin(kind) ==
    /\ epc = "idle"
    /\ invocations < MaxEntryInvocations
    /\ entry' = kind
    /\ eattempt' = 1
    /\ epc' = "gateway"
    /\ entry_result' = NoResult
    /\ generate_text_start(1)
    /\ invocations' = invocations + 1
    /\ last_error' = ""
    /\ arg' = Arg(kind, "", 1)
    /\ UNCHANGED <<kmvars, runvars, usage, issuers>>

\* the steps of generate_text under an entry point
entry_try ==
    /\ epc = "gateway"
    /\ gateway_try
    /\ UNCHANGED <<entry, epc, eattempt, entry_result>>

entry_end(resp) ==
    /\ epc = "gateway"
    /\ gateway_end(resp)
    /\ UNCHANGED <<entry, epc, eattempt, entry_result>>

\* the rest of the try block after generate_text has returned and the
\* response was parsed: record_success and return
entry_return ==
    \E s \in {do_record_success(keys, current_key_index, stats, now)} :
       /\ current_key_index' = s.idx
       /\ stats' = s.st
       /\ ret' = Ret("record_success", s.key # NoKey, NoVal, s.key, FALSE,
                     Cleared(stats, s.st))
       /\ usage' = charge_success(usage, s.key, entry, 1)
       /\ arg' = Arg("record_success", entry, 1)
       /\ entry_result' = Returned(result.text)
       /\ epc' = "idle"
       /\ Untracked
       /\ UNCHANGED <<keys, total_rotations, now, genvars, last_error, entry,
                      eattempt, issuers>>

\* the next iteration of the loop, or the terminal error after the last
entry_next(e, rotated) ==
    /\ arg' = Arg("except", e, eattempt)
    /\ IF eattempt < EntryRetries
       THEN /\ invocations < MaxEntryInvocations
            /\ eattempt' = eattempt + 1
            /\ generate_text_start(1)
            /\ invocations' = invocations + 1
            /\ last_error' = ""
            /\ UNCHANGED <<entry, epc, entry_result>>
       ELSE /\ epc' = "idle"
            /\ entry_result' = [kind |-> "raise", text |-> entry_error(entry, e)]
            /\ UNCHANGED <<genvars, last_error, entry, eattempt>>
    /\ Untracked
    /\ UNCHANGED <<keys, now, issuers>>

\* the except block of an entry point for the exception e
entry_except(e) ==
    IF ErrorTypeOf[e] \in {"rate_limit", "quota_exceeded"}
    THEN \E r \in {do_record_failure(keys, current_key_index, stats,
                                     total_rotations, now, e)} :
            /\ current_key_index' = r.idx
            /\ stats' = r.st
            /\ total_rotations' = r.rot
            /\ ret' = Ret("record_failure", r.ok, r.val, r.key,
                          is_quota_error(e), Cleared(stats, r.st))
            /\ usage' = charge_failure(usage, r.key, e)
            /\ entry_next(e, r.ok)
    ELSE /\ entry_next(e, FALSE)
         /\ UNCHANGED <<current_key_index, stats, total_rotations, ret, usage>>

\* generate_text has returned or raised, and the entry point goes on: the
\* response is parsed (its fields are there or not), or the except block
\* is entered with the terminal error of the gateway
entry_handle(parsed) ==
    /\ epc = "gateway"
    /\ pc = "idle"
    /\ result # NoResult
    /\ IF result.kind = "return"
       THEN IF parsed THEN entry_return ELSE entry_except(parse_error(entry))
       ELSE entry_except(format_error_message(last_error, "generate text"))

EntryInit ==
    /\ keys \in {<<keyC>>, <<keyA, keyC>>}
    /\ current_key_index = 0
    /\ stats = <<>>
    /\ total_rotations = 0
    /\ now = 0
    /\ ret = NoRet
    /\ run = 0
    /\ step = -1
    /\ NoClient
    /\ NoTracker
    /\ NoBatch
    /\ NoMore

EntryNext ==
    \/ \E kind \in Entries : entry_begin(kind) /\ EntryOnly
    \/ entry_try /\ EntryOnly
    \/ \E resp \in Responses : entry_end(resp) /\ EntryOnly
    \/ \E parsed \in BOOLEAN : entry_handle(parsed) /\ EntryOnly

SpecEntry == EntryInit /\ [][EntryNext]_vars

\* the credentials of the store that are cooling down
Cooling == {keys[i] : i \in {j \in 1..Len(keys) : CoolingDown(stats, keys[j], now)}}

\* C33: one failed upstream generation call puts at most one credential
\* into cooldown: when a call made through the translation or sentence
\* entry point fails with a quota or rate-limit error, only the credential
\* that was used for that call is marked as cooling down, for every pool
\* size; a credential that issued no failing call is never put into
\* cooldown.
C33_OnlyIssuersCool == Cooling \subseteq issuers

\* one upstream call has failed, made with the first credential of two,
\* and both credentials are cooling down
C33_Failure ==
    /\ keys = <<keyA, keyC>>
    /\ entry \in Entries
    /\ issuers = {keyA}
    /\ TotalRequests(usage) = 2
    /\ Cooling = {keyA, keyC}

\* a call of the gateway that was made with the credential get_current_key
\* hands out puts no other credential into cooldown
C33_GatewayBlame ==
    [][(/\ arg'.op = "generate_content_done"
        /\ configured_key =
              do_get_current_key(keys, current_key_index, stats, now).key)
          => (Cooling' \ Cooling) \subseteq {configured_key}]_vars

\* the gateway has put the first credential into cooldown and rotated, and
\* the second is usable
C33_Rotated ==
    /\ keys = <<keyA, keyC>>
    /\ arg.op = "generate_content_done"
    /\ issuers = {keyA}
    /\ Cooling = {keyA}
    /\ current_key_index = 1

(***************************************************************************)
(* ImageGenerator                                                          *)
(***************************************************************************)
DEFAULT_MAX_RETRIES == 3

\* what the image request yields: image data, a response without image
\* data, or an exception with a message
ImageResponses ==
    {[kind |-> "image", text |-> ""], [kind |-> "none", text |-> ""]}
       \cup {[kind |-> "error", text |-> e] : e \in UpstreamErrors}

\* the exception an attempt ends with ("" for none)
image_error(resp) ==
    IF resp.kind = "image" THEN ""
    ELSE IF resp.kind = "none" THEN NoImageError
    ELSE resp.text

\* _handle_image_error: error_type in ("rate_limit", "quota_exceeded",
\* "auth_error"), for the member of ErrorType that classify_error returns
handled_types == {Str("rate_limit"), Str("quota_exceeded"), Str("auth_error")}
handles(error) == ErrorType(ErrorTypeOf[error]) \in handled_types

\* a step of the image generator
ImageOnly ==
    UNCHANGED <<genvars, ptvars, batchvars, threadvars, filevars, last_error,
                issuers>>

\* generate_image up to its loop: _ensure_client makes a client with the
\* current credential when there is none
generate_image ==
    \E g \in {do_get_current_key(keys, current_key_index, stats, now)} :
    LET made == _client # NoKey IN
    /\ epc = "idle"
    /\ TotalRequests(usage) < MaxImages
    /\ entry' = "image"
    /\ current_key_index' = IF made THEN current_key_index ELSE g.idx
    /\ stats' = IF made THEN stats ELSE g.st
    /\ ret' = IF made THEN ret
              ELSE Ret("get_current_key", g.key # NoKey, NoVal, g.key, FALSE,
                       Cleared(stats, g.st))
    /\ _client' = IF made THEN _client ELSE g.key
    /\ IF ~made /\ g.key = NoKey
       THEN /\ epc' = "idle"
            /\ entry_result' =
                  [kind |-> "failure",
                   text |-> "Failed to initialize image generation client"]
       ELSE /\ epc' = "image"
            /\ entry_result' = NoResult
    /\ eattempt' = 0
    /\ arg' = Arg("generate_image", "", 0)
    /\ Untracked
    /\ UNCHANGED <<keys, total_rotations, now, usage>>

\* _create_success_result: record_success(operation="image")
image_success ==
    \E s \in {do_record_success(keys, current_key_index, stats, now)} :
       /\ current_key_index' = s.idx
       /\ stats' = s.st
       /\ ret' = Ret("record_success", s.key # NoKey, NoVal, s.key, FALSE,
                     Cleared(stats, s.st))
       /\ usage' = charge_success(usage, s.key, "image", 1)
       /\ entry_result' = [kind |-> "success", text |-> ""]
       /\ epc' = "idle"
       /\ UNCHANGED <<total_rotations, _client, eattempt>>

\* the loop after a failed attempt: the next one, or _finalize_failure
image_retry(error) ==
    /\ eattempt' = eattempt + 1
    /\ IF eattempt + 1 < DEFAULT_MAX_RETRIES
       THEN epc' = "image" /\ entry_result' = NoResult
       ELSE epc' = "idle" /\ entry_result' = [kind |-> "failure", text |-> error]

\* _handle_image_error with record_failure and, after a rotation,
\* _reinitialize_with_new_key
image_rotate(error) ==
    \E r \in {do_record_failure(keys, current_key_index, stats,
                                total_rotations, now, ErrorTypeOf[error])} :
    \E g \in {do_get_current_key(keys, r.idx, r.st, now)} :
       /\ current_key_index' = IF r.ok THEN g.idx ELSE r.idx
       /\ stats' = IF r.ok THEN g.st ELSE r.st
       /\ total_rotations' = r.rot
       /\ ret' = Ret("record_failure", r.ok, r.val, r.key,
                     is_quota_error(ErrorTypeOf[error]), Cleared(stats, r.st))
       /\ usage' = charge_failure(usage, r.key, ErrorTypeOf[error])
       /\ _client' = IF r.ok THEN g.key ELSE _client

\* one pass of the loop of generate_image: _attempt_image_generation
image_attempt(resp) ==
    LET error == image_error(resp) IN
    /\ epc = "image"
    /\ arg' = Arg("image_attempt", error, eattempt)
    /\ IF error = ""
       THEN image_success
       ELSE /\ IF handles(error)
               THEN image_rotate(error)
               ELSE UNCHANGED <<current_key_index, stats, total_rotations, ret,
                                usage, _client>>
            /\ image_retry(error)
    /\ Untracked
    /\ UNCHANGED <<keys, now, entry, _api_key, configured_key, pc, attempt,
                   max_retries, response, result, calls, failed_calls,
                   successes, invocations, last_error, issuers>>
    /\ UNCHANGED <<ptvars, batchvars, threadvars, filevars>>

ImageInit ==
    /\ keys \in {<<>>, <<keyC>>, <<keyA, keyC>>}
    /\ current_key_index = 0
    /\ stats = <<>>
    /\ total_rotations = 0
    /\ now = 0
    /\ ret = NoRet
    /\ run = 0
    /\ step = -1
    /\ NoClient
    /\ NoTracker
    /\ NoBatch
    /\ NoMore

ImageNext ==
    \/ generate_image /\ ImageOnly
    \/ \E resp \in ImageResponses : image_attempt(resp)
    \/ \E reason \in {"quota exceeded"} :
          record_failure_counted(reason) /\ StoreOnly

SpecImage == ImageInit /\ [][ImageNext]_vars

\* the step is an image attempt that failed with a rate-limit or quota
\* error
QuotaAttempt ==
    /\ arg'.op = "image_attempt"
    /\ arg'.text # ""
    /\ ErrorTypeOf[arg'.text] \in CooldownKinds

\* C40: when an image generation attempt fails with an error classified as
\* rate limit or quota exceeded, the image generator records the failure
\* with the key manager, and when that call rotates the credential it makes
\* its client anew, so that the next attempt of the same image is made with
\* the new current credential.
C40_RecordsAndRotates ==
    [][QuotaAttempt =>
          /\ TotalRequests(usage') = TotalRequests(usage) + 1
          /\ ret'.op = "record_failure"
          /\ ret'.ok => _client' = keys[current_key_index' + 1]]_vars

\* the first attempt of an image failed with a rate-limit error on the
\* first of two credentials; no failure is recorded, no credential cools
\* down, and the next attempt has the same client
C40_Failure ==
    /\ keys = <<keyA, keyC>>
    /\ arg = Arg("image_attempt", "429 rate limit exceeded", 0)
    /\ epc = "image"
    /\ eattempt = 1
    /\ _client = keyA
    /\ usage = <<>>
    /\ Cooling = {}
    /\ current_key_index = 0

\* a failed image attempt changes nothing in the key manager and leaves
\* the client, and a successful one is recorded as one image
C40_Untouched ==
    [][(arg'.op = "image_attempt") =>
          IF arg'.text # ""
          THEN UNCHANGED <<current_key_index, stats, total_rotations, usage,
                           _client>>
          ELSE /\ TotalRequests(usage') = TotalRequests(usage) + 1
               /\ ret'.op = "record_success"]_vars

\* three attempts of an image have failed and the image is given up, with
\* the client it started with
C40_GivenUp ==
    /\ arg.op = "image_attempt"
    /\ entry_result.kind = "failure"
    /\ eattempt = DEFAULT_MAX_RETRIES
    /\ _client = keyA
    /\ keys = <<keyA, keyC>>

====
